---- MODULE Spec2Model ----
(***************************************************************************)
(* A model of the renderers of marker: the content-reference resolvers     *)
(* (HTMLRenderer.extract_html, BaseRenderer.extract_block_html,            *)
(* JSONRenderer.extract_json, the chunk assembly) as a call-stack machine, *)
(* and Markdownify.convert_table as a cell-by-cell machine.                *)
(*                                                                         *)
(* Markup is a sequence of tokens [k, id]: k is the kind of the element    *)
(* (a tag, a text run, a content-ref placeholder, an <img>) and id is what *)
(* it carries (the block a text run or placeholder belongs to, the page id *)
(* of a page wrapper). BeautifulSoup's parse and str() are the passage     *)
(* between a string and this token sequence.                               *)
(***************************************************************************)
EXTENDS Integers, Sequences, FiniteSets, TLC

\* Number of nodes of the intermediate output tree (node 1 is the Document).
MaxNodes == 5

\* Number of blocks filtered out of the output tree after their parent was rendered.
MaxGone == 1

\* The tables convert_table is run on: rows, cells in all, and the largest
\* rowspan and colspan.
MaxRows == 2
MaxCells == 3
MaxSpan == 2

Nodes == 1..MaxNodes
Root == 1
\* Python's None for ref_block_id.
None == 0

image_blocks == {"Picture"}
page_blocks == {"Page"}

\* The block types a block of type ty may hold in its structure: pages in
\* the document; groups, text blocks and pictures on a page or in a group;
\* bold spans in a text block; a caption or a nested picture in a picture.
ChildTypes(ty) ==
    CASE ty = "Document" -> {"Page"}
      [] ty \in {"Page", "Group"} -> {"Group", "Text", "Picture"}
      [] ty = "Text" -> {"Span"}
      [] ty = "Picture" -> {"Text", "Picture"}
      [] OTHER -> {}

Tok(k, id) == [k |-> k, id |-> id]
IsRef(t) == t.k = "ref"
OpenTag(tag) == Tok(tag, 0)
CloseTag(tag) == Tok("/" \o tag, 0)
Space == Tok("ws", 0)
IsWs(t) == t.k = "ws"

RECURSIVE SeqOfSet(_)
SeqOfSet(S) ==
    IF S = {} THEN <<>>
    ELSE LET m == CHOOSE x \in S : \A y \in S : x <= y
         IN <<m>> \o SeqOfSet(S \ {m})

RECURSIVE Concat(_)
Concat(ss) == IF ss = <<>> THEN <<>> ELSE Head(ss) \o Concat(Tail(ss))

SelectIdx(s, P(_)) == {j \in 1..Len(s) : P(s[j])}

(***************************************************************************)
(* The intermediate output tree that Document.render hands to a renderer.  *)
(***************************************************************************)
\* The structure list of node n: its children in structure order.
Structure(par, n) == SeqOfSet({i \in 2..MaxNodes : par[i] = n})

\* The page a node lies on (the page_id field of its BlockId); pages are
\* numbered 0, 1, ... in document order.
RECURSIVE PageOf(_, _)
PageOf(par, n) ==
    IF n = Root THEN 0
    ELSE IF par[n] = Root THEN Cardinality({i \in 2..(n - 1) : par[i] = Root})
    ELSE PageOf(par, par[n])

\* Block.assemble_html: a container emits one content-ref per entry of its
\* structure, in structure order, inside its own markup; a leaf emits its text.
AssembleHtml(par, ty, n) ==
    LET refs == [j \in 1..Len(Structure(par, n)) |-> Tok("ref", Structure(par, n)[j])]
    IN  CASE ty[n] \in {"Document", "Page"} -> refs
          [] ty[n] = "Span" -> <<OpenTag("b"), Tok("text", n), CloseTag("b")>>
          [] ty[n] = "Picture" -> refs
          [] refs = <<>> -> <<Tok("open", n), Tok("text", n), Tok("close", n)>>
          [] OTHER -> <<Tok("open", n)>> \o refs \o <<Tok("close", n)>>

\* BlockOutput: id (the node and the fields of its BlockId), html, children.
\* A node of `gone` was filtered out upstream: its placeholder is still in
\* its parent's html but it is no child of the parent's output.
BlockOutput(par, ty, gone, n) ==
    [ btype    |-> ty[n],
      page_id  |-> PageOf(par, n),
      html     |-> AssembleHtml(par, ty, n),
      children |-> SeqOfSet({i \in 2..MaxNodes : par[i] = n /\ i \notin gone}) ]

\* The shapes of a tree of MaxNodes nodes: the parent of each node but the root.
Parents == {p \in [2..MaxNodes -> 1..(MaxNodes - 1)] : \A i \in 2..MaxNodes : p[i] < i}

\* The typings of the first n nodes of shape par.
RECURSIVE Typings(_, _)
Typings(par, n) ==
    IF n = 1 THEN {[i \in {Root} |-> "Document"]}
    ELSE UNION { { [i \in 1..n |-> IF i = n THEN t ELSE f[i]] : t \in ChildTypes(f[par[n]]) } :
                 f \in Typings(par, n - 1) }

\* The sets of filtered-out blocks: at most MaxGone blocks, none with children.
Gones(par) ==
    { g \in SUBSET {i \in 2..MaxNodes : \A c \in 2..MaxNodes : par[c] # i} :
        Cardinality(g) <= MaxGone }

VARIABLES tree, cfg, stack, pc, result, markdown, calls, json, chunks

\* convert_table: the <table> element, the position in the function, and its locals.
VARIABLES table, tpc, total_cols, grid, cur, col_idx, markdown_lines, overflows

\* sort_text_lines: the arguments, the list returned, and the list returned
\* when that list is sorted again.
VARIABLES lines, tolerance, sorted_lines, resorted, spc

\* matrix_intersection_area: the two lists, the matrix returned, and the
\* matrix returned with the lists swapped.
VARIABLES boxes1, boxes2, areas, swapped, mpc

\* ProviderOutput.merge: the objects in memory, self, other, the object
\* returned, the memory as it was before the call, and how many times the
\* caller has changed the object returned since.
VARIABLES heap, self, other, new_output, before, edits, ppc

\* The block registry of the process: the class of each block type, the
\* override_map of each converter constructed, the classes each document
\* was built with, and the number of register_block_class calls.
VARIABLES registry, converters, documents, registered

\* merge_consecutive_tags: the html and the tag given, the html returned, and
\* the html returned when that is given again.
VARIABLES markup, tagname, merged, remerged, gpc

\* An LLM service call: the service, its max_retries and retry_wait_time, the
\* loop variable tries, the outcome of every request made, the time slept
\* after each request that was retried, and the value returned.
VARIABLES service, max_retries, retry_wait_time, tries, outcomes, waits, returned, lpc

\* initialize_processors: the processor classes given, the pipeline returned,
\* and the position of the call.
VARIABLES processor_cls_lst, pipeline, ipc

\* PdfConverter.__call__ around filepath_to_str: the input, the files on disk
\* now and at the call, the temporary file and what is written to it but not
\* yet on disk, the path yielded, the exception under way, the bytes
\* build_document read, and the position of the call.
VARIABLES file_input, files, files_before, temp_file, buffer, temp_path, pending, built, fpc

\* PageExtractor.__call__: the pages given, the two settings, the chunks, the
\* futures in the order submitted, the futures in the order finished, the
\* results collected, and the position of the caller.
VARIABLES page_markdown, extraction_page_chunk_size, max_concurrency, md_chunks, futures, finished, results, epc

rvars == <<tree, cfg, stack, pc, result, markdown, calls, json, chunks>>
tvars == <<table, tpc, total_cols, grid, cur, col_idx, markdown_lines, overflows>>
svars == <<lines, tolerance, sorted_lines, resorted, spc>>
mvars == <<boxes1, boxes2, areas, swapped, mpc>>
pvars == <<heap, self, other, new_output, before, edits, ppc>>
regvars == <<registry, converters, documents, registered>>
gtvars == <<markup, tagname, merged, remerged, gpc>>
lvars == <<service, max_retries, retry_wait_time, tries, outcomes, waits, returned, lpc>>
ivars == <<processor_cls_lst, pipeline, ipc>>
fvars == <<file_input, files, files_before, temp_file, buffer, temp_path, pending, built, fpc>>
evars == <<page_markdown, extraction_page_chunk_size, max_concurrency, md_chunks, futures, finished, results, epc>>
xvars == <<regvars, gtvars, lvars, ivars, fvars, evars>>
oldvars == <<rvars, tvars, svars, mvars, pvars>>
regrest == <<oldvars, gtvars, lvars, ivars, fvars, evars>>
gtrest == <<oldvars, regvars, lvars, ivars, fvars, evars>>
lrest == <<oldvars, regvars, gtvars, ivars, fvars, evars>>
irest == <<oldvars, regvars, gtvars, lvars, fvars, evars>>
frest == <<oldvars, regvars, gtvars, lvars, ivars, evars>>
erest == <<oldvars, regvars, gtvars, lvars, ivars, fvars>>
gvars == <<svars, mvars, pvars, xvars>>
vars == <<rvars, tvars, gvars>>

(***************************************************************************)
(* Frames of the call stack.                                               *)
(*   out    the part of the soup before the placeholder being processed,   *)
(*          placeholders already replaced;                                 *)
(*   rest   the part of the soup from that placeholder on, as parsed;      *)
(*   rid    ref_block_id; content/bound: the local `content` and whether   *)
(*          it has been assigned; images: the local `images`;              *)
(*   i      extract_json: the number of children already converted.        *)
(***************************************************************************)
NewFrame(fn, n) ==
    [ fn |-> fn, node |-> n, out |-> <<>>, rest |-> tree[n].html, rid |-> None,
      content |-> <<>>, bound |-> FALSE, images |-> {}, i |-> 0 ]

Top == stack[Len(stack)]
HasRef(s) == \E j \in 1..Len(s) : IsRef(s[j])
FirstRef(s) == CHOOSE j \in 1..Len(s) : IsRef(s[j]) /\ \A m \in 1..(j - 1) : ~IsRef(s[m])
BeforeRef(s) == SubSeq(s, 1, FirstRef(s) - 1)
AfterRef(s) == SubSeq(s, FirstRef(s) + 1, Len(s))
RefSrc(s) == s[FirstRef(s)].id

\* for item in document_output.children: if item.id == src: ...; break
HasChild(n, src) == \E j \in 1..Len(tree[n].children) : tree[n].children[j] = src

\* The recursive call handed the parent again instead of the child.
CalleeSelf(n, src) == n

\* The item the recursive call is made on: the child of n whose id is src.
Callee(n, src) == src

\* Where the function fn on top of the stack stands: at a placeholder that
\* matches a child, at one that matches none, or past the last placeholder.
AtCall(fn) ==
    /\ pc = "run"
    /\ Top.fn = fn
    /\ HasRef(Top.rest)
    /\ HasChild(Top.node, RefSrc(Top.rest))
AtMiss(fn) ==
    /\ pc = "run"
    /\ Top.fn = fn
    /\ HasRef(Top.rest)
    /\ ~HasChild(Top.node, RefSrc(Top.rest))
AtEnd(fn) ==
    /\ pc = "run"
    /\ Top.fn = fn
    /\ ~HasRef(Top.rest)
\* The caller of the function on top of the stack is one of fns.
CalledBy(fns) == Len(stack) > 1 /\ stack[Len(stack) - 1].fn \in fns
\* extract_json / the loop of __call__ has children left to convert, or none.
AtChild == pc = "run" /\ Top.fn \in {"render", "extract_json"}
              /\ Top.i < Len(tree[Top.node].children)
AtLast(fn) == pc = "run" /\ Top.fn = fn /\ Top.i = Len(tree[Top.node].children)

(***************************************************************************)
(* BaseRenderer.merge_consecutive_tags / merge_consecutive_math            *)
(***************************************************************************)
\* The number of whitespace tokens at the head of s: the match of (\s*).
RECURSIVE WsRun(_)
WsRun(s) == IF s # <<>> /\ IsWs(Head(s)) THEN 1 + WsRun(Tail(s)) ELSE 0

\* replace_whitespace: nothing for an empty match, one space otherwise.
replace_whitespace(w) == IF w = 0 THEN <<>> ELSE <<Space>>

\* One re.sub pass: every leftmost, non-overlapping match of
\* </tag>(\s*)<tag> is replaced.
RECURSIVE SubTags(_, _)
SubTags(s, tag) ==
    IF s = <<>> THEN <<>>
    ELSE LET w == WsRun(Tail(s))
         IN  IF /\ Head(s) = CloseTag(tag)
                /\ Len(s) >= w + 2
                /\ s[w + 2] = OpenTag(tag)
             THEN replace_whitespace(w) \o SubTags(SubSeq(s, w + 3, Len(s)), tag)
             ELSE <<Head(s)>> \o SubTags(Tail(s), tag)

\* One pass only: the loop is left after the first re.sub.
merge_tags_once(html, tag) == SubTags(html, tag)

RECURSIVE merge_consecutive_tags(_, _)
merge_consecutive_tags(html, tag) ==
    IF html = <<>> THEN html
    ELSE LET new_merged == SubTags(html, tag)
         IN  IF new_merged = html THEN html
             ELSE merge_consecutive_tags(new_merged, tag)

\* One re.sub pass of -</math>(\s*)<open>, each match replaced by a space;
\* Tok("hy", 0) is a hyphen that ends a text run.
RECURSIVE SubMath(_, _)
SubMath(s, open) ==
    IF s = <<>> THEN <<>>
    ELSE LET w == WsRun(Tail(Tail(s)))
         IN  IF /\ Len(s) >= 2
                /\ Head(s) = Tok("hy", 0)
                /\ s[2] = CloseTag("math")
                /\ Len(s) >= w + 3
                /\ s[w + 3] = open
             THEN <<Space>> \o SubMath(SubSeq(s, w + 4, Len(s)), open)
             ELSE <<Head(s)>> \o SubMath(Tail(s), open)

merge_consecutive_math(html) ==
    IF html = <<>> THEN html
    ELSE SubMath(SubMath(html, OpenTag("math")), Tok("math", 1))

(***************************************************************************)
(* HTMLRenderer.extract_html                                               *)
(***************************************************************************)
\* extract_image and the name the image is stored under: one per BlockId.
ImageName(rid) == rid

\* The placeholder of an image that is not extracted stays in the soup.
ReplacementKeepsRef(rid, content) ==
    IF tree[rid].btype \in image_blocks /\ ~cfg.extract_images
    THEN <<Tok("ref", rid)>>
    ELSE content

\* The content is put in twice.
ReplacementTwice(rid, content) == content \o content

\* What ref.replace_with puts in the place of the placeholder of rid.
Replacement(rid, content) ==
    IF tree[rid].btype \in image_blocks
    THEN IF cfg.extract_images
         THEN <<OpenTag("p")>> \o content \o <<Tok("img", ImageName(rid)), CloseTag("p")>>
         ELSE content
    ELSE IF tree[rid].btype \in page_blocks /\ cfg.paginate_output
         THEN <<Tok("div", tree[rid].page_id)>> \o content \o <<CloseTag("div")>>
         ELSE content

\* The body of `for ref in content_refs` after the search for the child:
\* frame f with ref_block_id = rid, the child's content and sub_images.
\* raised: the AttributeError of None.block_type.
ProcessRefHtml(f, rid, content, sub_images) ==
    IF rid = None THEN [raised |-> TRUE, frame |-> f]
    ELSE
    LET isImage == tree[rid].btype \in image_blocks
        element == Replacement(rid, content)
        images ==
            IF isImage
            THEN IF cfg.extract_images THEN f.images \cup {ImageName(rid)} ELSE f.images
            ELSE f.images \cup sub_images
    IN  [ raised |-> FALSE,
          frame  |-> [f EXCEPT !.out = f.out \o BeforeRef(f.rest) \o element,
                               !.rest = AfterRef(f.rest),
                               !.rid = rid,
                               !.images = images] ]

\* The level 0 tail of extract_html.
FinishHtml(output) ==
    <<Tok("doc", 0)>>
      \o merge_consecutive_math(
            merge_consecutive_tags(merge_consecutive_tags(output, "b"), "i"))
      \o <<CloseTag("doc")>>

\* item.id == src: the recursive call on the matching child.
HtmlCall ==
    /\ AtCall("extract_html")
    /\ stack' = Append(stack, NewFrame("extract_html", Callee(Top.node, RefSrc(Top.rest))))
    /\ calls' = calls + 1
    /\ UNCHANGED <<tree, cfg, pc, result, markdown, json, chunks, tvars, gvars>>

\* The child returns (output, images); the caller replaces the placeholder.
HtmlReturn ==
    /\ AtEnd("extract_html")
    /\ Len(stack) > 1
    /\ LET r == ProcessRefHtml(stack[Len(stack) - 1], Top.node,
                               Top.out \o Top.rest, Top.images)
       IN  stack' = Append(SubSeq(stack, 1, Len(stack) - 2), r.frame)
    /\ UNCHANGED <<tree, cfg, pc, result, markdown, calls, json, chunks, tvars, gvars>>

\* No child has the id: the loop over the children ends without a match and
\* the rest of the body runs on what the previous placeholder left behind.
HtmlMiss ==
    /\ AtMiss("extract_html")
    /\ LET r == ProcessRefHtml(Top, Top.rid, <<>>, {})
       IN  IF r.raised
           THEN /\ pc' = "raised"
                /\ stack' = <<>>
           ELSE /\ pc' = pc
                /\ stack' = Append(SubSeq(stack, 1, Len(stack) - 1), r.frame)
    /\ UNCHANGED <<tree, cfg, result, markdown, calls, json, chunks, tvars, gvars>>

\* extract_html returns at level 0.
HtmlFinish ==
    /\ AtEnd("extract_html")
    /\ Len(stack) = 1
    /\ result' = [html |-> FinishHtml(Top.out \o Top.rest), images |-> Top.images]
    /\ pc' = "extracted"
    /\ stack' = <<>>
    /\ UNCHANGED <<tree, cfg, markdown, calls, json, chunks, tvars, gvars>>

(***************************************************************************)
(* Markdownify.convert and MarkdownRenderer.__call__                       *)
(***************************************************************************)
\* A div converted like any other element: its content alone.
convert_div_plain(t) == <<>>

\* convert_div on a page wrapper: the pagination marker "{page_id}" +
\* page_separator, then the converted content of the div.
convert_div(t) ==
    IF cfg.paginate_output THEN <<Tok("marker", t.id)>> ELSE <<>>

\* The conversion of one element; what is no div keeps its place in the text.
RECURSIVE Convert(_)
Convert(s) ==
    IF s = <<>> THEN <<>>
    ELSE (CASE Head(s).k = "div" -> convert_div(Head(s))
            [] Head(s).k \in {"/div", "doc", "/doc"} -> <<>>
            [] OTHER -> <<Head(s)>>) \o Convert(Tail(s))

MarkdownCall ==
    /\ pc = "extracted"
    /\ markdown' = Convert(result.html)
    /\ pc' = "done"
    /\ UNCHANGED <<tree, cfg, stack, result, calls, json, chunks, tvars, gvars>>

(***************************************************************************)
(* BaseRenderer.extract_block_html                                         *)
(***************************************************************************)
\* The body of `for ref in content_refs` after the search for the child.
\* found: a child matched, and content, sub_images are what the recursive
\* call returned; otherwise content is whatever the local holds.
\* raised: the AttributeError of None.block_type, or the UnboundLocalError
\* of a `content` never assigned.
ProcessRefBlock(f, found, rid, content, sub_images) ==
    LET bound == found \/ f.bound
        now   == IF found THEN content ELSE f.content
    IN
    IF rid = None THEN [raised |-> TRUE, frame |-> f]
    ELSE IF tree[rid].btype \in image_blocks /\ cfg.extract_images
    THEN [ raised |-> FALSE,
           frame  |-> [f EXCEPT !.out = f.out \o BeforeRef(f.rest)
                                          \o <<f.rest[FirstRef(f.rest)]>>,
                                !.rest = AfterRef(f.rest),
                                !.rid = rid, !.content = now, !.bound = bound,
                                !.images = f.images \cup {rid}] ]
    ELSE IF ~bound THEN [raised |-> TRUE, frame |-> f]
    ELSE [ raised |-> FALSE,
           frame  |-> [f EXCEPT !.out = f.out \o BeforeRef(f.rest) \o now,
                                !.rest = AfterRef(f.rest),
                                !.rid = rid, !.content = now, !.bound = bound,
                                !.images = f.images \cup sub_images] ]

\* The images extract_block_html returns: its own image is added last.
BlockImages(f) ==
    IF tree[f.node].btype \in image_blocks /\ cfg.extract_images
    THEN f.images \cup {f.node}
    ELSE f.images

BlockCall ==
    /\ AtCall("extract_block_html")
    /\ stack' = Append(stack,
                        NewFrame("extract_block_html", Callee(Top.node, RefSrc(Top.rest))))
    /\ calls' = calls + 1
    /\ UNCHANGED <<tree, cfg, pc, result, markdown, json, chunks, tvars, gvars>>

BlockReturn ==
    /\ AtEnd("extract_block_html")
    /\ CalledBy({"extract_block_html"})
    /\ LET r == ProcessRefBlock(stack[Len(stack) - 1], TRUE, Top.node,
                                Top.out \o Top.rest, BlockImages(Top))
       IN  stack' = Append(SubSeq(stack, 1, Len(stack) - 2), r.frame)
    /\ UNCHANGED <<tree, cfg, pc, result, markdown, calls, json, chunks, tvars, gvars>>

BlockMiss ==
    /\ AtMiss("extract_block_html")
    /\ LET r == ProcessRefBlock(Top, FALSE, Top.rid, <<>>, {})
       IN  IF r.raised
           THEN /\ pc' = "raised"
                /\ stack' = <<>>
           ELSE /\ pc' = pc
                /\ stack' = Append(SubSeq(stack, 1, Len(stack) - 1), r.frame)
    /\ UNCHANGED <<tree, cfg, result, markdown, calls, json, chunks, tvars, gvars>>

(***************************************************************************)
(* JSONRenderer.extract_json and the loop of __call__ over the pages       *)
(***************************************************************************)
\* cls.__base__ == Block: the block classes that derive from Block directly.
JsonLeafTypes == {"Text", "Span", "Picture"}

Unset == [set |-> FALSE, leaf |-> FALSE, html |-> <<>>, images |-> {}, children |-> <<>>]

\* extract_json(child): a leaf block goes to extract_block_html, a container
\* converts its children one after the other.
JsonCall ==
    /\ AtChild
    /\ LET child == tree[Top.node].children[Top.i + 1]
       IN  stack' = Append(stack,
                NewFrame(IF tree[child].btype \in JsonLeafTypes
                         THEN "extract_block_html" ELSE "extract_json", child))
    /\ calls' = calls + 1
    /\ UNCHANGED <<tree, cfg, pc, result, markdown, json, chunks, tvars, gvars>>

Resume(caller) == [caller EXCEPT !.i = caller.i + 1]

\* A container's JSONBlockOutput: html is block_output.html as rendered.
JsonReturn ==
    /\ AtLast("extract_json")
    /\ CalledBy({"render", "extract_json"})
    /\ json' = [json EXCEPT ![Top.node] =
                    [ set |-> TRUE, leaf |-> FALSE, html |-> tree[Top.node].html,
                      images |-> {}, children |-> tree[Top.node].children ]]
    /\ stack' = Append(SubSeq(stack, 1, Len(stack) - 2), Resume(stack[Len(stack) - 1]))
    /\ UNCHANGED <<tree, cfg, pc, result, markdown, calls, chunks, tvars, gvars>>

\* A leaf's JSONBlockOutput: html and images from extract_block_html.
BlockFinish ==
    /\ AtEnd("extract_block_html")
    /\ CalledBy({"render", "extract_json"})
    /\ json' = [json EXCEPT ![Top.node] =
                    [ set |-> TRUE, leaf |-> TRUE, html |-> Top.out \o Top.rest,
                      images |-> BlockImages(Top), children |-> <<>> ]]
    /\ stack' = Append(SubSeq(stack, 1, Len(stack) - 2), Resume(stack[Len(stack) - 1]))
    /\ UNCHANGED <<tree, cfg, pc, result, markdown, calls, chunks, tvars, gvars>>

(***************************************************************************)
(* ChunkRenderer: assemble_html_with_images, collect_images, json_to_chunks*)
(***************************************************************************)
\* not getattr(block, "children", None)
NoChildren(n) == json[n].leaf \/ json[n].children = <<>>

RECURSIVE assemble_html_with_images(_)
assemble_html_with_images(n) ==
    IF NoChildren(n)
    THEN IF tree[n].btype \in image_blocks
         THEN <<OpenTag("p")>> \o json[n].html \o <<Tok("img", n), CloseTag("p")>>
         ELSE json[n].html
    ELSE LET h == json[n].html
             child_ids == {json[n].children[j] : j \in 1..Len(json[n].children)}
         IN  Concat([j \in 1..Len(h) |->
                        IF IsRef(h[j]) /\ h[j].id \in child_ids
                        THEN assemble_html_with_images(h[j].id)
                        ELSE <<h[j]>>])

RECURSIVE collect_images(_)
collect_images(n) ==
    IF NoChildren(n) THEN json[n].images
    ELSE json[n].images
           \cup UNION {collect_images(json[n].children[j]) : j \in 1..Len(json[n].children)}

\* PageGroupClass(page_id=p, ...) is given no block_id: every Page has the
\* default one.
PageBlockId == 0

\* The block_id of the BlockId of node n.
block_id(n) == IF tree[n].btype = "Page" THEN PageBlockId ELSE n

\* str(block_output.id), "<BlockType>/<page_id>/<block_id>", as its parts.
BlockIdStr(n) == <<tree[n].btype, tree[n].page_id, block_id(n)>>

\* int(block.id.split("/")[-1])
LastPart(id) == id[Len(id)]

\* json_to_chunks on a block that is no Page.
FlatBlockOutput(n, page_id) ==
    [ id |-> n, block_type |-> tree[n].btype,
      html |-> assemble_html_with_images(n), page |-> page_id,
      images |-> collect_images(n) ]

\* json_to_chunks on a Page: one entry per child, with the page_id read
\* from the id of the Page.
json_to_chunks(page) ==
    [j \in 1..Len(json[page].children) |->
        FlatBlockOutput(json[page].children[j], LastPart(BlockIdStr(page)))]

\* The pages are done: the chunks of all pages, in order.
ChunkCall ==
    /\ AtLast("render")
    /\ chunks' = Concat([j \in 1..Len(tree[Root].children) |->
                            json_to_chunks(tree[Root].children[j])])
    /\ pc' = "done"
    /\ stack' = <<>>
    /\ UNCHANGED <<tree, cfg, result, markdown, calls, json, tvars, gvars>>

(***************************************************************************)
(* Markdownify.convert_table (html_tables_in_markdown off)                 *)
(*                                                                         *)
(* A cell is its rowspan, its colspan and the value                        *)
(* get_formatted_table_text gives it: 0 is the empty string, another       *)
(* number a text of its own.                                               *)
(* NoValue is the None a grid position starts with.                        *)
(***************************************************************************)
NoValue == -1
EmptyStr == 0

\* The table is held as the number of its rows and the list of its cells
\* in document order, each with its row (from 0) and its place k in the row.
total_rows == table.rows

\* tr.find_all(["td", "th"]) of row i.
RowCells(t, i) == SelectSeq(t.cells, LAMBDA x : x.row = i)

\* range(int(cell.get("rowspan", 1)) - 1), added to the row index i.
PushedRows(i, rowspan) == {i + r : r \in 0..(rowspan - 2)}

\* The inner loop of the column count over the cells of row i:
\* row_cols += colspan, and rowspan_cols[i + r] += colspan.
RECURSIVE CountRow(_, _, _, _)
CountRow(cells, i, row_cols, rowspan_cols) ==
    IF cells = <<>> THEN [row_cols |-> row_cols, rowspan_cols |-> rowspan_cols]
    ELSE LET cell == Head(cells)
         IN  CountRow(Tail(cells), i, row_cols + cell.colspan,
                      [j \in DOMAIN rowspan_cols |->
                          IF j \in PushedRows(i, cell.rowspan)
                          THEN rowspan_cols[j] + cell.colspan
                          ELSE rowspan_cols[j]])

\* The outer loop: colspans, the list of row_cols of the rows from i on.
RECURSIVE CountRows(_, _, _)
CountRows(t, i, rowspan_cols) ==
    IF i >= t.rows THEN <<>>
    ELSE LET r == CountRow(RowCells(t, i), i, rowspan_cols[i], rowspan_cols)
         IN  <<r.row_cols>> \o CountRows(t, i + 1, r.rowspan_cols)

Max(S) == CHOOSE x \in S : \A y \in S : y <= x
Min(S) == CHOOSE x \in S : \A y \in S : x <= y

\* total_cols = max(colspans) if colspans else 0
TotalCols(t) ==
    LET colspans == CountRows(t, 0, [j \in 0..(t.rows + MaxSpan) |-> 0])
    IN  IF colspans = <<>> THEN 0 ELSE Max({colspans[j] : j \in 1..Len(colspans)})

\* The filled positions are not skipped: the cell goes where col_idx stands.
SkipNone(g, row_idx, c) == c

\* while col_idx < total_cols and grid[row_idx][col_idx] is not None: col_idx += 1
RECURSIVE SkipFilled(_, _, _)
SkipFilled(g, row_idx, c) ==
    IF c < total_cols /\ g[row_idx + 1][c + 1] # NoValue
    THEN SkipFilled(g, row_idx, c + 1)
    ELSE c

\* The positions the two range loops of a cell visit, and those of them
\* that raise IndexError.
Covered(row_idx, c0, cell) ==
    {<<row_idx + r, c0 + c>> : r \in 0..(cell.rowspan - 1), c \in 0..(cell.colspan - 1)}
InGrid(pos) == pos[1] < total_rows /\ pos[2] < total_cols

\* The writes are made outside any try block.
CaughtNowhere(pos) == FALSE

\* try: ... except IndexError: the write to pos is inside the try block.
Caught(pos) == TRUE

\* A cell with a position outside the grid is left out as a whole.
FillCellOrSkip(g, row_idx, c0, cell) ==
    IF \E p \in Covered(row_idx, c0, cell) : ~InGrid(p) THEN g
    ELSE [r \in 1..total_rows |-> [c \in 1..total_cols |->
            IF <<r - 1, c - 1>> \in Covered(row_idx, c0, cell)
            THEN IF r - 1 = row_idx /\ c - 1 = c0 THEN cell.value ELSE EmptyStr
            ELSE g[r][c]]]

\* The grid after the two range loops of a cell anchored at (row_idx, c0).
FillCell(g, row_idx, c0, cell) ==
    [r \in 1..total_rows |-> [c \in 1..total_cols |->
        IF <<r - 1, c - 1>> \in Covered(row_idx, c0, cell)
        THEN IF r - 1 = row_idx /\ c - 1 = c0 THEN cell.value ELSE EmptyStr
        ELSE g[r][c]]]

\* is_empty_line = all(not cell for cell in row)
is_empty_line(row) == \A c \in 1..Len(row) : row[c] \in {NoValue, EmptyStr}

\* A line of the table: a row of the grid (None printed as the empty
\* string), or the header separator add_header_line appends.
RowLine(i, row) ==
    [ sep |-> FALSE, row |-> i,
      cells |-> [c \in 1..Len(row) |-> IF row[c] = NoValue THEN EmptyStr ELSE row[c]] ]
HeaderLine == [sep |-> TRUE, row |-> 0, cells |-> <<>>]

\* for i, row in enumerate(grid): the lines from row i on.
RECURSIVE EmitRows(_, _, _)
EmitRows(g, i, added_header) ==
    IF i > Len(g) THEN <<>>
    ELSE IF is_empty_line(g[i]) /\ ~added_header
         THEN EmitRows(g, i + 1, added_header)
         ELSE <<RowLine(i, g[i])>>
                \o (IF ~added_header THEN <<HeaderLine>> ELSE <<>>)
                \o EmitRows(g, i + 1, TRUE)

\* "Handle one row tables"
OneRowTable(t) == IF t.rows = 1 THEN <<HeaderLine>> ELSE <<>>

NumCells == Len(table.cells)

\* The first loop: the column count, and the grid of None.
TableCount ==
    /\ tpc = "count"
    /\ total_cols' = TotalCols(table)
    /\ grid' = [r \in 1..total_rows |-> [c \in 1..TotalCols(table) |-> NoValue]]
    /\ cur' = 1
    /\ col_idx' = 0
    /\ tpc' = IF NumCells = 0 THEN "emit" ELSE "place"
    /\ UNCHANGED <<table, markdown_lines, overflows, rvars, gvars>>

\* The column the cell is anchored at: col_idx after the while loop.
AnchorCol(cell) == SkipFilled(grid, cell.row, IF cell.k = 1 THEN 0 ELSE col_idx)

\* An IndexError of a write of the cell leaves convert_table.
Uncaught(cell) ==
    /\ AnchorCol(cell) < total_cols
    /\ \E p \in Covered(cell.row, AnchorCol(cell), cell) : ~InGrid(p) /\ ~Caught(p)

\* One turn of `for cell in tr.find_all(["td", "th"])`; col_idx starts at 0
\* on the first cell of a row. overflows counts the calls of logger.info.
PlaceCell ==
    /\ tpc = "place"
    /\ LET cell == table.cells[cur]
           c0 == AnchorCol(cell)
       IN  IF c0 >= total_cols
           THEN /\ col_idx' = c0
                /\ UNCHANGED <<grid, overflows>>
           ELSE /\ grid' = FillCell(grid, cell.row, c0, cell)
                /\ overflows' = overflows
                     + Cardinality({p \in Covered(cell.row, c0, cell) : ~InGrid(p)})
                /\ col_idx' = c0 + cell.colspan
    /\ cur' = cur + 1
    /\ tpc' = IF Uncaught(table.cells[cur]) THEN "raised"
              ELSE IF cur = NumCells THEN "emit" ELSE "place"
    /\ UNCHANGED <<table, total_cols, markdown_lines, rvars, gvars>>

\* The lines of the text table.
TableEmit ==
    /\ tpc = "emit"
    /\ markdown_lines' = EmitRows(grid, 1, FALSE) \o OneRowTable(table)
    /\ tpc' = "done"
    /\ UNCHANGED <<table, total_cols, grid, cur, col_idx, overflows, rvars, gvars>>

\* The rows of a table: how many cells each <tr> holds.
RowSizes ==
    UNION { { z \in [1..r -> 0..MaxCells] : TRUE } : r \in 0..MaxRows }

RECURSIVE SumSeq(_)
SumSeq(z) == IF z = <<>> THEN 0 ELSE Head(z) + SumSeq(Tail(z))

\* The table with z[i] cells in row i and the spans sp of its cells in
\* document order; with `blank` the cells of the first row hold no text.
MakeTable(z, sp, blank) ==
    [ rows  |-> Len(z),
      cells |-> Concat([i \in 1..Len(z) |-> [k \in 1..z[i] |->
                    LET n == SumSeq(SubSeq(z, 1, i - 1)) + k
                    IN  [ row |-> i - 1, k |-> k,
                          rowspan |-> sp[n][1], colspan |-> sp[n][2],
                          value |-> IF blank /\ i = 1 THEN EmptyStr ELSE n ]]]) ]

SortIdle ==
    /\ lines = <<>>
    /\ tolerance = 0
    /\ sorted_lines = <<>>
    /\ resorted = <<>>
    /\ spc = "idle"

MatrixIdle ==
    /\ boxes1 = <<>>
    /\ boxes2 = <<>>
    /\ areas = <<>>
    /\ swapped = <<>>
    /\ mpc = "idle"

MergeIdle ==
    /\ heap = <<>>
    /\ self = 0
    /\ other = 0
    /\ new_output = 0
    /\ before = <<>>
    /\ edits = 0
    /\ ppc = "idle"

RegistryIdle ==
    /\ registry = <<>>
    /\ converters = <<>>
    /\ documents = <<>>
    /\ registered = 0

TagsIdle ==
    /\ markup = <<>>
    /\ tagname = ""
    /\ merged = <<>>
    /\ remerged = <<>>
    /\ gpc = "idle"

ServiceIdle ==
    /\ service = "none"
    /\ max_retries = 0
    /\ retry_wait_time = 0
    /\ tries = 0
    /\ outcomes = <<>>
    /\ waits = <<>>
    /\ returned = ""
    /\ lpc = "idle"

ProcessorsIdle ==
    /\ processor_cls_lst = <<>>
    /\ pipeline = <<>>
    /\ ipc = "idle"

FilesIdle ==
    /\ file_input = <<>>
    /\ files = <<>>
    /\ files_before = <<>>
    /\ temp_file = "None"
    /\ buffer = <<>>
    /\ temp_path = "None"
    /\ pending = "None"
    /\ built = <<>>
    /\ fpc = "idle"

ExtractIdle ==
    /\ page_markdown = <<>>
    /\ extraction_page_chunk_size = 0
    /\ max_concurrency = 0
    /\ md_chunks = <<>>
    /\ futures = <<>>
    /\ finished = <<>>
    /\ results = <<>>
    /\ epc = "idle"

ExtrasIdle == RegistryIdle /\ TagsIdle /\ ServiceIdle /\ ProcessorsIdle /\ FilesIdle /\ ExtractIdle

GeometryIdle == SortIdle /\ MatrixIdle /\ MergeIdle

TableIdle ==
    /\ table = [rows |-> 0, cells |-> <<>>]
    /\ tpc = "idle"
    /\ total_cols = 0
    /\ grid = <<>>
    /\ cur = 0
    /\ col_idx = 0
    /\ markdown_lines = <<>>
    /\ overflows = 0

RenderIdle ==
    /\ tree = <<>>
    /\ cfg = [renderer |-> "none", extract_images |-> FALSE, paginate_output |-> FALSE]
    /\ stack = <<>>
    /\ pc = "idle"
    /\ result = [html |-> <<>>, images |-> {}]
    /\ markdown = <<>>
    /\ calls = 0
    /\ json = <<>>
    /\ chunks = <<>>

RegistryOnly == RenderIdle /\ TableIdle /\ GeometryIdle /\ TagsIdle /\ ServiceIdle /\ ProcessorsIdle /\ FilesIdle /\ ExtractIdle

TagsOnly == RenderIdle /\ TableIdle /\ GeometryIdle /\ RegistryIdle /\ ServiceIdle /\ ProcessorsIdle /\ FilesIdle /\ ExtractIdle

ServiceOnly == RenderIdle /\ TableIdle /\ GeometryIdle /\ RegistryIdle /\ TagsIdle /\ ProcessorsIdle /\ FilesIdle /\ ExtractIdle

ProcessorsOnly == RenderIdle /\ TableIdle /\ GeometryIdle /\ RegistryIdle /\ TagsIdle /\ ServiceIdle /\ FilesIdle /\ ExtractIdle

FilesOnly == RenderIdle /\ TableIdle /\ GeometryIdle /\ RegistryIdle /\ TagsIdle /\ ServiceIdle /\ ProcessorsIdle /\ ExtractIdle

ExtractOnly == RenderIdle /\ TableIdle /\ GeometryIdle /\ RegistryIdle /\ TagsIdle /\ ServiceIdle /\ ProcessorsIdle /\ FilesIdle

InitTable ==
    /\ \E z \in RowSizes :
         /\ SumSeq(z) <= MaxCells
         /\ \E sp \in [1..SumSeq(z) -> (1..MaxSpan) \X (1..MaxSpan)] :
              \E blank \in {b \in BOOLEAN : b => (Len(z) > 0 /\ z[1] > 0)} :
                 table = MakeTable(z, sp, blank)
    /\ tpc = "count"
    /\ total_cols = 0
    /\ grid = <<>>
    /\ cur = 0
    /\ col_idx = 0
    /\ markdown_lines = <<>>
    /\ overflows = 0
    /\ RenderIdle
    /\ GeometryIdle
    /\ ExtrasIdle

NextTable ==
    \/ TableCount
    \/ PlaceCell
    \/ TableEmit

SpecTable == InitTable /\ [][NextTable]_vars

(***************************************************************************)
(* util.sort_text_lines                                                    *)
(*                                                                         *)
(* Coordinates and the tolerance are counted in eighths, which floats hold *)
(* exactly: the default tolerance 1.25 is 10. A line is its bbox[0] (x),   *)
(* its bbox[1] (y) and the identity of the object (id).                    *)
(***************************************************************************)
\* The most lines in the list handed to sort_text_lines.
MaxLines == 4

\* round(): to the nearest integer, a half to the even neighbour.
Round(num, den) ==
    LET q == num \div den
        r == num % den
    IN  IF 2 * r < den THEN q
        ELSE IF 2 * r > den THEN q + 1
        ELSE IF q % 2 = 0 THEN q ELSE q + 1

\* The bucket is found by truncating downwards instead of rounding.
group_key_floor(line, tol) == (line.y \div tol) * tol

\* group_key = round(line.bbox[1] / tolerance) * tolerance
group_key(line, tol) == Round(line.y, tol) * tol

\* vertical_groups[group_key] = [line]: the line replaces the group.
AddLineAlone(groups, line, tol) ==
    IF \E j \in 1..Len(groups) : groups[j].key = group_key(line, tol)
    THEN [j \in 1..Len(groups) |->
            IF groups[j].key = group_key(line, tol)
            THEN [key |-> groups[j].key, group |-> <<line>>]
            ELSE groups[j]]
    ELSE Append(groups, [key |-> group_key(line, tol), group |-> <<line>>])

\* One turn of `for line in lines`: vertical_groups, a dict, as the list
\* of its items in insertion order.
AddLine(groups, line, tol) ==
    IF \E j \in 1..Len(groups) : groups[j].key = group_key(line, tol)
    THEN [j \in 1..Len(groups) |->
            IF groups[j].key = group_key(line, tol)
            THEN [key |-> groups[j].key, group |-> Append(groups[j].group, line)]
            ELSE groups[j]]
    ELSE Append(groups, [key |-> group_key(line, tol), group |-> <<line>>])

RECURSIVE VerticalGroups(_, _, _)
VerticalGroups(groups, ls, tol) ==
    IF ls = <<>> THEN groups
    ELSE VerticalGroups(AddLine(groups, Head(ls), tol), Tail(ls), tol)

\* An element goes before the elements that compare equal to it.
RECURSIVE InsertBeforeEqual(_, _)
InsertBeforeEqual(e, s) ==
    IF s = <<>> THEN <<e>>
    ELSE IF Head(s).sk < e.sk THEN <<Head(s)>> \o InsertBeforeEqual(e, Tail(s))
    ELSE <<e>> \o s

\* sorted() is stable: e goes after the elements of s that are not greater.
RECURSIVE Insert(_, _)
Insert(e, s) ==
    IF s = <<>> THEN <<e>>
    ELSE IF Head(s).sk <= e.sk THEN <<Head(s)>> \o Insert(e, Tail(s))
    ELSE <<e>> \o s

\* sorted(s, key): s is a list of [sk, v], sk the sort key of v.
RECURSIVE sorted(_)
sorted(s) ==
    IF s = <<>> THEN <<>>
    ELSE Insert(s[Len(s)], sorted(SubSeq(s, 1, Len(s) - 1)))

\* The group is taken as it is.
unsorted_group(group) == group

\* sorted_group = sorted(group, key=lambda x: x.bbox[0])
sorted_group(group) ==
    LET d == sorted([j \in 1..Len(group) |-> [sk |-> group[j].x, v |-> group[j]]])
    IN  [j \in 1..Len(d) |-> d[j].v]

\* for _, group in sorted(vertical_groups.items()): the keys are distinct,
\* so the items are ordered by key alone.
sort_text_lines(ls, tol) ==
    LET vertical_groups == VerticalGroups(<<>>, ls, tol)
        items == sorted([j \in 1..Len(vertical_groups) |->
                            [sk |-> vertical_groups[j].key, v |-> vertical_groups[j].group]])
    IN  Concat([j \in 1..Len(items) |-> sorted_group(items[j].v)])

\* The top-y and left-x of the lines, and the tolerances: 1.25 and 2.
TopYs == {-5, 0, 6, 800, 805}
LeftXs == {0, 8}
Tolerances == {10, 16}

SortCall ==
    /\ spc = "start"
    /\ sorted_lines' = sort_text_lines(lines, tolerance)
    /\ spc' = "sorted"
    /\ UNCHANGED <<lines, tolerance, resorted, rvars, tvars, mvars, pvars, xvars>>

\* The list returned is sorted again with the same tolerance.
SortAgain ==
    /\ spc = "sorted"
    /\ resorted' = sort_text_lines(sorted_lines, tolerance)
    /\ spc' = "resorted"
    /\ UNCHANGED <<lines, tolerance, sorted_lines, rvars, tvars, mvars, pvars, xvars>>

InitSort ==
    /\ \E n \in 0..MaxLines : \E xy \in [1..n -> LeftXs \X TopYs] :
          lines = [j \in 1..n |-> [id |-> j, x |-> xy[j][1], y |-> xy[j][2]]]
    /\ tolerance \in Tolerances
    /\ sorted_lines = <<>>
    /\ resorted = <<>>
    /\ spc = "start"
    /\ RenderIdle
    /\ TableIdle
    /\ MatrixIdle
    /\ MergeIdle
    /\ ExtrasIdle

NextSort ==
    \/ SortCall
    \/ SortAgain

SpecSort == InitSort /\ [][NextSort]_vars

(***************************************************************************)
(* util.matrix_intersection_area                                           *)
(*                                                                         *)
(* A box is <<x1, y1, x2, y2>>; a matrix is its shape and its entries.     *)
(***************************************************************************)
\* The most boxes in the two lists together.
MaxBoxes == 3

\* np.zeros((n, m))
Zeros(n, m) == [shape |-> <<n, m>>, at |-> [i \in 1..n |-> [j \in 1..m |-> 0]]]

\* np.maximum and np.minimum of two numbers.
Maximum(a, b) == IF a >= b THEN a ELSE b
Minimum(a, b) == IF a <= b THEN a ELSE b

\* The difference is taken as it is, negative when the boxes are apart.
Unclamped(d) == d

\* np.maximum(0, d)
Clamped(d) == Maximum(0, d)

\* The entry of the pair (b1, b2): width * height of the intersection.
IntersectionArea(b1, b2) ==
    LET min_x == Maximum(b1[1], b2[1])
        min_y == Maximum(b1[2], b2[2])
        max_x == Minimum(b1[3], b2[3])
        max_y == Minimum(b1[4], b2[4])
        width == Clamped(max_x - min_x)
        height == Clamped(max_y - min_y)
    IN  width * height

matrix_intersection_area(bs1, bs2) ==
    IF Len(bs1) = 0 \/ Len(bs2) = 0 THEN Zeros(Len(bs1), Len(bs2))
    ELSE [ shape |-> <<Len(bs1), Len(bs2)>>,
           at |-> [i \in 1..Len(bs1) |-> [j \in 1..Len(bs2) |->
                     IntersectionArea(bs1[i], bs2[j])]] ]

\* The sides of the boxes given: two that overlap in part, and a point
\* that touches one of them and lies apart from the other.
Sides == {<<0, 2>>, <<1, 3>>, <<3, 3>>}
Boxes == {<<h[1], v[1], h[2], v[2]>> : h \in Sides, v \in Sides}

MatrixCall ==
    /\ mpc = "start"
    /\ areas' = matrix_intersection_area(boxes1, boxes2)
    /\ mpc' = "computed"
    /\ UNCHANGED <<boxes1, boxes2, swapped, rvars, tvars, svars, pvars, xvars>>

\* The call with the two lists in each other's place.
MatrixSwapped ==
    /\ mpc = "computed"
    /\ swapped' = matrix_intersection_area(boxes2, boxes1)
    /\ mpc' = "swapped"
    /\ UNCHANGED <<boxes1, boxes2, areas, rvars, tvars, svars, pvars, xvars>>

InitMatrix ==
    /\ \E n \in 0..MaxBoxes : \E m \in 0..(MaxBoxes - n) :
          /\ boxes1 \in [1..n -> Boxes]
          /\ boxes2 \in [1..m -> Boxes]
    /\ areas = <<>>
    /\ swapped = <<>>
    /\ mpc = "start"
    /\ RenderIdle
    /\ TableIdle
    /\ SortIdle
    /\ MergeIdle
    /\ ExtrasIdle

NextMatrix ==
    \/ MatrixCall
    \/ MatrixSwapped

SpecMatrix == InitMatrix /\ [][NextMatrix]_vars

(***************************************************************************)
(* providers.ProviderOutput.merge                                          *)
(*                                                                         *)
(* Memory is a sequence of objects; an object is named by its place in     *)
(* it.  An object has a class, the objects it refers to, and a value of    *)
(* its own.  A ProviderOutput refers to <<line, spans, chars>> (chars may  *)
(* be None), a line to <<polygon>>, a list to its items; a polygon's       *)
(* value is its bbox, a span's its text, a char's its character.           *)
(***************************************************************************)
\* The most spans of one ProviderOutput.
MaxSpans == 2

\* The most changes the caller makes to the object returned.
MaxEdits == 2

Obj(kind, refs, val) == [kind |-> kind, refs |-> refs, val |-> val]

\* The fields of a ProviderOutput o in memory h.
LineOf(h, o) == h[o].refs[1]
SpansOf(h, o) == h[o].refs[2]
CharsOf(h, o) == h[o].refs[3]
PolygonOf(h, o) == h[LineOf(h, o)].refs[1]

\* The objects that can be reached from the objects in from.
RECURSIVE Reachable(_, _)
Reachable(h, from) ==
    LET more == from \cup
                UNION {{h[x].refs[i] : i \in DOMAIN h[x].refs} \ {None} : x \in from}
    IN  IF more = from THEN from ELSE Reachable(h, more)

\* copy.copy(x): a new object that refers to the same objects as x.
copy(h, x) == [heap |-> Append(h, h[x]), id |-> Len(h) + 1]

\* deepcopy(x): a copy of x and of everything x refers to, each object
\* copied once (the memo), the copies referring to the copies.
deepcopy(h, x) ==
    LET objs == SeqOfSet(Reachable(h, {x}))
        memo(o) == IF o = None THEN None
                   ELSE Len(h) + (CHOOSE k \in 1..Len(objs) : objs[k] = o)
        copies == [k \in 1..Len(objs) |->
                     [h[objs[k]] EXCEPT !.refs = [i \in DOMAIN @ |-> memo(@[i])]]]
    IN  [heap |-> h \o copies, id |-> memo(x)]

\* The items are put in front of the list.
extend_front(h, list, items) == [h EXCEPT ![list].refs = items \o @]

\* list.extend(items)
extend(h, list, items) == [h EXCEPT ![list].refs = @ \o items]

\* The bbox that holds both bboxes.
BboxUnion(b1, b2) ==
    << Minimum(b1[1], b2[1]), Minimum(b1[2], b2[2]),
       Maximum(b1[3], b2[3]), Maximum(b1[4], b2[4]) >>

RECURSIVE BboxOfAll(_, _, _)
BboxOfAll(h, bbox, others) ==
    IF others = <<>> THEN bbox
    ELSE BboxOfAll(h, BboxUnion(bbox, h[Head(others)].val), Tail(others))

\* PolygonBox.merge(others): a new polygon, the bbox of all the bboxes.
PolygonMerge(h, polygon, others) ==
    [ heap |-> Append(h, Obj("polygon", <<>>, BboxOfAll(h, h[polygon].val, others))),
      id |-> Len(h) + 1 ]

\* new_output.spans.extend(other_copy.spans)
ExtendSpans(h, n, other_copy) ==
    extend(h, SpansOf(h, n), h[SpansOf(h, other_copy)].refs)

\* The chars of both are joined; where only other has chars, they become
\* the chars of new_output.
MergeChars(h, n, other_copy) ==
    IF CharsOf(h, n) # None /\ CharsOf(h, other_copy) # None
      THEN extend(h, CharsOf(h, n), h[CharsOf(h, other_copy)].refs)
    ELSE IF CharsOf(h, other_copy) # None
      THEN [h EXCEPT ![n].refs[3] = CharsOf(h, other_copy)]
    ELSE h

\* new_output.line.polygon = the polygon merge returns
SetPolygon(h, n, p) == [p.heap EXCEPT ![LineOf(h, n)].refs = <<p.id>>]

\* new_output.line.polygon = new_output.line.polygon.merge([other_copy.line.polygon])
MergePolygon(h, n, other_copy) ==
    SetPolygon(h, n, PolygonMerge(h, PolygonOf(h, n), <<PolygonOf(h, other_copy)>>))

\* merge from its second line on: c1 is deepcopy(self) and the memory
\* it left, c2 is deepcopy(other).
MergeCopies(c1, c2) ==
    [ heap |-> MergePolygon(MergeChars(ExtendSpans(c2.heap, c1.id, c2.id),
                                       c1.id, c2.id),
                            c1.id, c2.id),
      id |-> c1.id ]

CopyOther(c1, o) == MergeCopies(c1, deepcopy(c1.heap, o))

\* self.merge(other): the memory afterwards and the object returned.
merge(h, s, o) == CopyOther(deepcopy(h, s), o)

\* A ProviderOutput put in memory h: a line with the bbox given, n spans
\* with texts <<owner, 1>> .. <<owner, n>> and, if with_chars, one list of
\* one char for each span.
NewOutput(h, owner, bbox, n, with_chars) ==
    LET base == Len(h)
        line == << Obj("polygon", <<>>, bbox), Obj("line", <<base + 1>>, <<>>) >>
        spans == [i \in 1..n |-> Obj("span", <<>>, <<owner, i>>)]
                    \o << Obj("spans", [i \in 1..n |-> base + 2 + i], <<>>) >>
        chars == [i \in 1..n |-> Obj("char", <<>>, <<owner, i>>)]
                    \o [i \in 1..n |-> Obj("charlist", <<base + 3 + n + i>>, <<>>)]
                    \o << Obj("chars", [i \in 1..n |-> base + 3 + 2 * n + i], <<>>) >>
        output == Obj("output",
                      << base + 2, base + 3 + n,
                         IF with_chars THEN base + 4 + 3 * n ELSE None >>,
                      <<>>)
    IN  h \o line \o spans \o (IF with_chars THEN chars ELSE <<>>) \o <<output>>

\* The bboxes of the lines given: two that overlap in part.
Bboxes == {<<0, 0, 2, 1>>, <<1, 1, 3, 3>>}

InitMerge ==
    /\ \E n1 \in 0..MaxSpans, c1 \in BOOLEAN, b1 \in Bboxes :
          LET h1 == NewOutput(<<>>, 1, b1, n1, c1)
          IN  /\ self = Len(h1)
              /\ \/ /\ heap = h1
                    /\ other = self
                 \/ \E n2 \in 0..MaxSpans, c2 \in BOOLEAN, b2 \in Bboxes :
                       /\ heap = NewOutput(h1, 2, b2, n2, c2)
                       /\ other = Len(heap)
    /\ before = heap
    /\ new_output = None
    /\ edits = 0
    /\ ppc = "start"
    /\ RenderIdle
    /\ TableIdle
    /\ SortIdle
    /\ MatrixIdle
    /\ ExtrasIdle

\* new_output = self.merge(other)
MergeCall ==
    /\ ppc = "start"
    /\ LET r == merge(heap, self, other)
       IN  /\ heap' = r.heap
           /\ new_output' = r.id
    /\ ppc' = "returned"
    /\ UNCHANGED <<self, other, before, edits, rvars, tvars, svars, mvars, xvars>>

\* The objects the caller gets at through the object returned.
ReturnedObjects == Reachable(heap, {new_output})

\* The classes of lists and what they hold.
ItemOf(kind) ==
    CASE kind = "spans" -> Obj("span", <<>>, <<9, 9>>)
      [] kind = "chars" -> Obj("charlist", <<>>, <<>>)
      [] kind = "charlist" -> Obj("char", <<>>, <<9, 9>>)

\* The caller sets the text of a span, the character of a char or the
\* bbox of the polygon of the object returned.
SetValue ==
    /\ ppc = "returned"
    /\ edits < MaxEdits
    /\ \E x \in ReturnedObjects :
          /\ heap[x].val # <<>>
          /\ heap' = [heap EXCEPT ![x].val = [i \in DOMAIN @ |-> 9]]
    /\ edits' = edits + 1
    /\ UNCHANGED <<self, other, new_output, before, ppc, rvars, tvars, svars, mvars, xvars>>

\* The caller appends a new item to a list of the object returned.
AppendItem ==
    /\ ppc = "returned"
    /\ edits < MaxEdits
    /\ \E x \in ReturnedObjects :
          /\ heap[x].kind \in {"spans", "chars", "charlist"}
          /\ heap' = Append([heap EXCEPT ![x].refs = Append(@, Len(heap) + 1)],
                            ItemOf(heap[x].kind))
    /\ edits' = edits + 1
    /\ UNCHANGED <<self, other, new_output, before, ppc, rvars, tvars, svars, mvars, xvars>>

\* The caller pops the last item of a list of the object returned.
RemoveItem ==
    /\ ppc = "returned"
    /\ edits < MaxEdits
    /\ \E x \in ReturnedObjects :
          /\ heap[x].kind \in {"spans", "chars", "charlist"}
          /\ heap[x].refs # <<>>
          /\ heap' = [heap EXCEPT ![x].refs = SubSeq(@, 1, Len(@) - 1)]
    /\ edits' = edits + 1
    /\ UNCHANGED <<self, other, new_output, before, ppc, rvars, tvars, svars, mvars, xvars>>

NextMerge ==
    \/ MergeCall
    \/ SetValue
    \/ AppendItem
    \/ RemoveItem

SpecMerge == InitMerge /\ [][NextMerge]_vars

(***************************************************************************)
(* converters.pdf.PdfConverter and the block registry                      *)
(*                                                                         *)
(* The registry is one table for the whole process.  Constructing a        *)
(* converter registers the classes of its override_map; converting a file  *)
(* builds a document with the classes registered at that moment.           *)
(***************************************************************************)
\* The most converters constructed and the most documents built.
MaxConverters == 2
MaxDocuments == 2

BlockTypes == {"Table", "Text"}
BlockClasses == {"default", "override"}

\* The override_maps a converter may be given: some block types, each
\* with a class.
OverrideMaps == UNION {[S -> BlockClasses] : S \in SUBSET BlockTypes}

\* register_block_class(block_type, block_cls), for every item of the
\* override_map.
RegisterAll(reg, override_map) ==
    [b \in BlockTypes |-> IF b \in DOMAIN override_map THEN override_map[b] ELSE reg[b]]

\* PdfConverter(..., config = {override_map: ...})
ConverterInit ==
    /\ Len(converters) < MaxConverters
    /\ \E override_map \in OverrideMaps :
          /\ registry' = RegisterAll(registry, override_map)
          /\ registered' = registered + Cardinality(DOMAIN override_map)
          /\ converters' = Append(converters, override_map)
    /\ UNCHANGED <<documents, regrest>>

\* converter(filepath): build_document builds the tree with the classes
\* the registry holds now.
BuildDocument ==
    /\ converters # <<>>
    /\ Len(documents) < MaxDocuments
    /\ documents' = Append(documents, registry)
    /\ UNCHANGED <<registry, converters, registered, regrest>>

InitRegistry ==
    /\ registry = [b \in BlockTypes |-> "default"]
    /\ converters = <<>>
    /\ documents = <<>>
    /\ registered = 0
    /\ RegistryOnly

NextRegistry ==
    \/ ConverterInit
    \/ BuildDocument

SpecRegistry == InitRegistry /\ [][NextRegistry]_vars

(***************************************************************************)
(* BaseRenderer.merge_consecutive_tags on any html                         *)
(***************************************************************************)
\* The most tokens of the html given.
MaxTokens == 5

\* A whitespace character that is no space.
Newline == Tok("ws", 1)

\* What the html given is made of: the tags of the tag given and of
\* another one, whitespace and text.
TagTokens ==
    {OpenTag("b"), CloseTag("b"), OpenTag("i"), Space, Newline, Tok("text", 0)}

TagsCall ==
    /\ gpc = "start"
    /\ merged' = merge_consecutive_tags(markup, tagname)
    /\ gpc' = "merged"
    /\ UNCHANGED <<markup, tagname, remerged, gtrest>>

\* The html returned is given to the function again.
TagsAgain ==
    /\ gpc = "merged"
    /\ remerged' = merge_consecutive_tags(merged, tagname)
    /\ gpc' = "remerged"
    /\ UNCHANGED <<markup, tagname, merged, gtrest>>

InitTags ==
    /\ \E n \in 0..MaxTokens : markup \in [1..n -> TagTokens]
    /\ tagname = "b"
    /\ merged = <<>>
    /\ remerged = <<>>
    /\ gpc = "start"
    /\ TagsOnly

NextTags ==
    \/ TagsCall
    \/ TagsAgain

SpecTags == InitTags /\ [][NextTags]_vars

(***************************************************************************)
(* services: BaseGeminiService, OpenAIService, ClaudeService __call__      *)
(*                                                                         *)
(* One call is the loop `for tries in range(1, total_tries + 1)`; a step   *)
(* is one pass of the loop: the request, what came of it, and the branch   *)
(* of the try statement that handles it.                                   *)
(***************************************************************************)
\* The largest max_retries.
MaxRetries == 2

Services == {"gemini", "openai", "claude"}

\* The values of retry_wait_time tried.
RetryWaitTimes == {1, 3}

\* What can come of a request: a response whose text is what was asked
\* for, a response whose text is not (no JSON, or JSON that does not fit
\* the schema), or an exception of the client.
RequestOutcomes(s) ==
    IF s = "gemini"
    THEN {"valid", "invalid", "api_429", "api_443", "api_503", "api_other", "error"}
    ELSE {"valid", "invalid", "rate_limit", "timeout", "error"}

\* The try body returns: json.loads of a valid text, and in Claude
\* validate_response, which gives None for a text it cannot validate.
TryReturns(s, o) == o = "valid" \/ (s = "claude" /\ o = "invalid")
TryValue(s, o) == IF o = "valid" THEN "response" ELSE "None"

\* The except clauses that go on to the next pass of the loop.
Retried(s, o) ==
    IF s = "gemini" THEN o \in {"api_429", "api_443", "api_503", "invalid"}
    ELSE o \in {"rate_limit", "timeout"}

\* The wait is the same before every retry.
wait_time_flat(t, rwt) == rwt

\* wait_time = tries * self.retry_wait_time
wait_time(t, rwt) == t * rwt

\* The time slept before the next pass: the JSONDecodeError clause of
\* Gemini does not sleep.
Slept(s, o, t, rwt) ==
    IF s = "gemini" /\ o = "invalid" THEN 0 ELSE wait_time(t, rwt)

total_tries == max_retries + 1

\* One pass of the loop.
Attempt ==
    /\ lpc = "calling"
    /\ \E o \in RequestOutcomes(service) :
          /\ outcomes' = Append(outcomes, o)
          /\ IF TryReturns(service, o)
             THEN /\ returned' = TryValue(service, o)
                  /\ lpc' = "returned"
                  /\ UNCHANGED <<tries, waits>>
             ELSE IF Retried(service, o) /\ tries # total_tries
             THEN /\ waits' = Append(waits, Slept(service, o, tries, retry_wait_time))
                  /\ tries' = tries + 1
                  /\ UNCHANGED <<returned, lpc>>
             ELSE /\ returned' = "empty"
                  /\ lpc' = "returned"
                  /\ UNCHANGED <<tries, waits>>
    /\ UNCHANGED <<service, max_retries, retry_wait_time, lrest>>

InitService ==
    /\ service \in Services
    /\ max_retries \in 0..MaxRetries
    /\ retry_wait_time \in RetryWaitTimes
    /\ tries = 1
    /\ outcomes = <<>>
    /\ waits = <<>>
    /\ returned = ""
    /\ lpc = "calling"
    /\ ServiceOnly

NextService == Attempt

SpecService == InitService /\ [][NextService]_vars

(***************************************************************************)
(* BaseConverter.initialize_processors: the processors are instantiated in *)
(* the order of the classes given; the simple LLM processors are taken out *)
(* of the list and handed to one meta-processor, which is inserted among   *)
(* the other processors.                                                   *)
(***************************************************************************)
MaxProcessors == 5

ProcessorClasses == {"simple_llm", "other"}

ProcessorLists == UNION {[1..n -> ProcessorClasses] : n \in 0..MaxProcessors}

\* resolve_dependencies: one instance per class, named by its place in the list.
resolve_dependencies(lst, i) == [id |-> i, cls |-> lst[i], processor_lst |-> <<>>]

Instances(lst) == [i \in 1..Len(lst) |-> resolve_dependencies(lst, i)]

IsSimpleLLM(p) == p.cls = "simple_llm"

IsOther(p) == ~IsSimpleLLM(p)

simple_llm_processors(processors) == SelectSeq(processors, IsSimpleLLM)

other_processors(processors) == SelectSeq(processors, IsOther)

\* The positions of enumerate(), counted from 0.
Enumerated(processors) == [i \in 1..Len(processors) |-> i - 1]

llm_positions(processors) ==
    SelectSeq(Enumerated(processors), LAMBDA i : IsSimpleLLM(processors[i + 1]))

LastOf(s) == s[Len(s)]

insert_position(processors) ==
    LET position == LastOf(llm_positions(processors))
                        - Len(simple_llm_processors(processors)) + 1
    IN  IF position > 0 THEN position ELSE 0

meta_processor(processor_lst) == [id |-> 0, cls |-> "meta", processor_lst |-> processor_lst]

\* list.insert(position, x) for a position that is not negative.
list_insert(lst, position, x) ==
    LET at == IF position < Len(lst) THEN position ELSE Len(lst)
    IN  SubSeq(lst, 1, at) \o <<x>> \o SubSeq(lst, at + 1, Len(lst))

initialize_processors(lst) ==
    LET processors == Instances(lst)
    IN  IF simple_llm_processors(processors) = <<>>
        THEN processors
        ELSE list_insert(other_processors(processors), insert_position(processors),
                         meta_processor(simple_llm_processors(processors)))

InitProcessors ==
    /\ ProcessorsOnly
    /\ processor_cls_lst \in ProcessorLists
    /\ pipeline = <<>>
    /\ ipc = "start"

InitializeProcessors ==
    /\ ipc = "start"
    /\ pipeline' = initialize_processors(processor_cls_lst)
    /\ ipc' = "done"
    /\ UNCHANGED <<processor_cls_lst, irest>>

NextProcessors == InitializeProcessors

SpecProcessors == InitProcessors /\ [][NextProcessors]_vars

(***************************************************************************)
(* PdfConverter.__call__ and the context manager filepath_to_str: a str    *)
(* input is yielded as it is; any other input gets a named temporary file, *)
(* kept on close, which receives the bytes of a BytesIO and is unlinked in *)
(* the finally clause.                                                     *)
(***************************************************************************)
MaxBytes == 2

Bytes == {0, 1}

ByteStrings == UNION {[1..n -> Bytes] : n \in 0..MaxBytes}

StrPaths == {"a.pdf", "b.pdf"}

\* The files a caller may have on disk before the call.
UserFiles == {"a.pdf"}

\* The name NamedTemporaryFile picks: one that no file has.
TempName == "tmp.pdf"

FileInputs ==
    {[type |-> "str", path |-> p, bytes |-> <<>>] : p \in StrPaths}
        \cup {[type |-> "BytesIO", path |-> "None", bytes |-> b] : b \in ByteStrings}
        \cup {[type |-> "int", path |-> "None", bytes |-> <<>>]}

exists(fs, name) == name \in DOMAIN fs

create(fs, name) == [n \in DOMAIN fs \cup {name} |-> IF n = name THEN <<>> ELSE fs[n]]

flush(fs, name, data) ==
    IF exists(fs, name) THEN [fs EXCEPT ![name] = @ \o data] ELSE fs

unlink_kept(fs, name) == fs

unlink(fs, name) == [n \in DOMAIN fs \ {name} |-> fs[n]]

InitFiles ==
    /\ FilesOnly
    /\ file_input \in FileInputs
    /\ \E present \in SUBSET UserFiles : files = [n \in present |-> <<1>>]
    /\ files_before = files
    /\ temp_file = "None"
    /\ buffer = <<>>
    /\ temp_path = "None"
    /\ pending = "None"
    /\ built = <<>>
    /\ fpc = "call"

\* with self.filepath_to_str(filepath) as temp_path, for a str.
YieldStr ==
    /\ fpc = "call"
    /\ file_input.type = "str"
    /\ temp_path' = file_input.path
    /\ fpc' = "body"
    /\ UNCHANGED <<file_input, files, files_before, temp_file, buffer, pending, built, frest>>

\* tempfile.NamedTemporaryFile(delete=False, suffix=".pdf") as temp_file
OpenTemp ==
    /\ fpc = "call"
    /\ file_input.type # "str"
    /\ files' = create(files, TempName)
    /\ temp_file' = TempName
    /\ fpc' = "opened"
    /\ UNCHANGED <<file_input, files_before, buffer, temp_path, pending, built, frest>>

\* temp_file.write(file_input.getvalue())
WriteTemp ==
    /\ fpc = "opened"
    /\ file_input.type = "BytesIO"
    /\ buffer' = buffer \o file_input.bytes
    /\ fpc' = "close"
    /\ UNCHANGED <<file_input, files, files_before, temp_file, temp_path, pending, built, frest>>

RaiseTypeError ==
    /\ fpc = "opened"
    /\ file_input.type # "BytesIO"
    /\ pending' = "TypeError"
    /\ fpc' = "close"
    /\ UNCHANGED <<file_input, files, files_before, temp_file, buffer, temp_path, built, frest>>

\* The inner with statement ends: the temporary file is closed and, without
\* an exception under way, its name is yielded.
CloseTemp ==
    /\ fpc = "close"
    /\ files' = flush(files, temp_file, buffer)
    /\ buffer' = <<>>
    /\ IF pending = "None"
       THEN temp_path' = temp_file /\ fpc' = "body"
       ELSE temp_path' = temp_path /\ fpc' = "finally"
    /\ UNCHANGED <<file_input, files_before, temp_file, pending, built, frest>>

\* document = self.build_document(temp_path): reads the file, or fails.
BuildFromPath ==
    /\ fpc = "body"
    /\ \/ /\ exists(files, temp_path)
          /\ built' = files[temp_path]
          /\ fpc' = "render"
          /\ UNCHANGED pending
       \/ /\ pending' = IF exists(files, temp_path) THEN "Exception" ELSE "FileNotFoundError"
          /\ fpc' = "finally"
          /\ UNCHANGED built
    /\ UNCHANGED <<file_input, files, files_before, temp_file, buffer, temp_path, frest>>

\* rendered = renderer(document): returns, or fails.
RenderBuilt ==
    /\ fpc = "render"
    /\ pending' \in {"None", "Exception"}
    /\ fpc' = "finally"
    /\ UNCHANGED <<file_input, files, files_before, temp_file, buffer, temp_path, built, frest>>

\* The finally clause, reached by the end of the with block of __call__ or
\* by the exception thrown in at the yield or raised before it.
Finally ==
    /\ fpc = "finally"
    /\ files' = IF temp_file # "None" /\ exists(files, temp_file)
                THEN unlink(files, temp_file)
                ELSE files
    /\ fpc' = "exited"
    /\ UNCHANGED <<file_input, files_before, temp_file, buffer, temp_path, pending, built, frest>>

NextFiles ==
    \/ YieldStr
    \/ OpenTemp
    \/ WriteTemp
    \/ RaiseTypeError
    \/ CloseTemp
    \/ BuildFromPath
    \/ RenderBuilt
    \/ Finally

SpecFiles == InitFiles /\ [][NextFiles]_vars

(***************************************************************************)
(* PageExtractor.__call__: the pages are grouped into chunks, one          *)
(* inference_single_chunk task per chunk is submitted to a thread pool of  *)
(* max_concurrency workers, and the caller takes the result of each future *)
(* in the order of submission.  The workers finish in any order.           *)
(***************************************************************************)
MaxPages == 4
MaxChunkSize == 2
MaxWorkers == 2

\* What stands between two pages of a chunk ("\n\n"); pages are 1, 2, ...
Separator == 0

RECURSIVE join(_)
join(chunk) ==
    IF Len(chunk) <= 1 THEN chunk
    ELSE <<Head(chunk), Separator>> \o join(Tail(chunk))

\* page_markdown[i : i + size], i counted from 0.
slice(pages, i, size) ==
    SubSeq(pages, i + 1, IF i + size < Len(pages) THEN i + size ELSE Len(pages))

\* range(0, len(page_markdown), size), as the number of its values.
RangeLen(n, size) == (n + size - 1) \div size

chunk_page_markdown(pages, size) ==
    [k \in 1..RangeLen(Len(pages), size) |-> join(slice(pages, (k - 1) * size, size))]

\* What a call of the LLM service gives inference_single_chunk.
Responses == {"complete", "incomplete", "raises"}

\* inference_single_chunk: a schema object for a complete response, None for
\* an incomplete one; the prompt, and so the result, is made from the chunk.
inference_single_chunk(chunk, response) ==
    [of |-> chunk, value |-> IF response = "complete" THEN "PageExtractionSchema" ELSE "None"]

\* The future of the k-th turn of the loop over the list of futures.
completed_first(order, k) == IF k <= Len(order) THEN order[k] ELSE k

awaited(order, k) == k

Running == {i \in 1..Len(futures) : futures[i].state = "running"}

Queued == {i \in 1..Len(futures) : futures[i].state = "pending"}

InitExtract ==
    /\ ExtractOnly
    /\ \E n \in 0..MaxPages : page_markdown = [i \in 1..n |-> i]
    /\ extraction_page_chunk_size \in 1..MaxChunkSize
    /\ max_concurrency \in 1..MaxWorkers
    /\ md_chunks = <<>>
    /\ futures = <<>>
    /\ finished = <<>>
    /\ results = <<>>
    /\ epc = "chunk"

ChunkPages ==
    /\ epc = "chunk"
    /\ md_chunks' = chunk_page_markdown(page_markdown, extraction_page_chunk_size)
    /\ epc' = "submit"
    /\ UNCHANGED <<page_markdown, extraction_page_chunk_size, max_concurrency,
                   futures, finished, results, erest>>

\* executor.submit(self.inference_single_chunk, chunk) for the next chunk.
Submit ==
    /\ epc = "submit"
    /\ IF Len(futures) < Len(md_chunks)
       THEN /\ futures' = Append(futures, [state |-> "pending",
                                            arg |-> md_chunks[Len(futures) + 1],
                                            result |-> [of |-> <<>>, value |-> "None"]])
            /\ epc' = epc
       ELSE /\ futures' = futures
            /\ epc' = "collect"
    /\ UNCHANGED <<page_markdown, extraction_page_chunk_size, max_concurrency,
                   md_chunks, finished, results, erest>>

\* A free worker takes the oldest task of the queue.
WorkerStart ==
    /\ Queued # {}
    /\ Cardinality(Running) < max_concurrency
    /\ LET i == CHOOSE i \in Queued : \A j \in Queued : i <= j
       IN  futures' = [futures EXCEPT ![i].state = "running"]
    /\ UNCHANGED <<page_markdown, extraction_page_chunk_size, max_concurrency,
                   md_chunks, finished, results, epc, erest>>

\* A worker ends its task: the future holds a result or an exception.
WorkerFinish ==
    \E i \in Running, response \in Responses :
        /\ futures' = [futures EXCEPT
                          ![i].state = IF response = "raises" THEN "failed" ELSE "done",
                          ![i].result = inference_single_chunk(futures[i].arg, response)]
        /\ finished' = Append(finished, i)
        /\ UNCHANGED <<page_markdown, extraction_page_chunk_size, max_concurrency,
                       md_chunks, results, epc, erest>>

\* One turn of the loop: results.append(future.result()), which waits for that
\* future and raises what its task raised.
Collect ==
    /\ epc = "collect"
    /\ Len(results) < Len(futures)
    /\ LET future == futures[awaited(finished, Len(results) + 1)]
       IN  \/ /\ future.state = "done"
              /\ results' = Append(results, future.result)
              /\ epc' = epc
           \/ /\ future.state = "failed"
              /\ results' = results
              /\ epc' = "shutdown"
    /\ UNCHANGED <<page_markdown, extraction_page_chunk_size, max_concurrency,
                   md_chunks, futures, finished, erest>>

\* The with statement ends by the exception: the executor waits for the tasks
\* still queued or running, then the exception leaves __call__.
Raise ==
    /\ epc = "shutdown"
    /\ Queued = {}
    /\ Running = {}
    /\ epc' = "raised"
    /\ UNCHANGED <<page_markdown, extraction_page_chunk_size, max_concurrency,
                   md_chunks, futures, finished, results, erest>>

Return ==
    /\ epc = "collect"
    /\ Len(results) = Len(futures)
    /\ epc' = "returned"
    /\ UNCHANGED <<page_markdown, extraction_page_chunk_size, max_concurrency,
                   md_chunks, futures, finished, results, erest>>

NextExtract ==
    \/ ChunkPages
    \/ Submit
    \/ WorkerStart
    \/ WorkerFinish
    \/ Collect
    \/ Raise
    \/ Return

SpecExtract == InitExtract /\ [][NextExtract]_vars

(***************************************************************************)
(* The renderers as one machine                                            *)
(***************************************************************************)
Configs ==
    { c \in [renderer : {"markdown", "chunk"}, extract_images : BOOLEAN,
             paginate_output : BOOLEAN] :
        c.renderer = "chunk" => ~c.paginate_output }

Init ==
    /\ \E par \in Parents : \E ty \in Typings(par, MaxNodes) : \E gone \in Gones(par) :
          tree = [n \in Nodes |-> BlockOutput(par, ty, gone, n)]
    /\ cfg \in Configs
    /\ stack = <<NewFrame(IF cfg.renderer = "markdown" THEN "extract_html" ELSE "render",
                          Root)>>
    /\ pc = "run"
    /\ result = [html |-> <<>>, images |-> {}]
    /\ markdown = <<>>
    /\ calls = 1
    /\ json = [n \in Nodes |-> Unset]
    /\ chunks = <<>>
    /\ TableIdle
    /\ GeometryIdle
    /\ ExtrasIdle

Next ==
    \/ HtmlCall
    \/ HtmlReturn
    \/ HtmlMiss
    \/ HtmlFinish
    \/ MarkdownCall
    \/ BlockCall
    \/ BlockReturn
    \/ BlockMiss
    \/ JsonCall
    \/ JsonReturn
    \/ BlockFinish
    \/ ChunkCall

Spec == Init /\ [][Next]_vars

\* The interpreter runs the call to its end: no step is postponed forever.
FairSpec == Spec /\ WF_vars(Next)

(***************************************************************************)
(* Properties of the resolvers                                             *)
(***************************************************************************)
HtmlRun == cfg.renderer = "markdown"
HtmlReturned == HtmlRun /\ pc \in {"extracted", "done"}
Returned == pc \in {"done", "raised"}

\* A placeholder of node n that matches none of n's children.
Unresolved(n) ==
    {j \in 1..Len(tree[n].html) : IsRef(tree[n].html[j]) /\ ~HasChild(n, tree[n].html[j].id)}
AllResolved == \A n \in Nodes : Unresolved(n) = {}
NoImageNodes == \A n \in Nodes : tree[n].btype \notin image_blocks

NoRef(s) == ~HasRef(s)
Kinds(s, K) == SelectSeq(s, LAMBDA t : t.k \in K)
Without(s, K) == SelectSeq(s, LAMBDA t : t.k \notin K)

\* The markup of n with every placeholder replaced by the markup of the
\* block it names, recursively.
RECURSIVE Splice(_)
Splice(n) ==
    Concat([j \in 1..Len(tree[n].html) |->
              IF IsRef(tree[n].html[j]) THEN Splice(tree[n].html[j].id)
              ELSE <<tree[n].html[j]>>])

\* The text runs below n, in structure order.
RECURSIVE LeafTexts(_)
LeafTexts(n) ==
    Kinds(tree[n].html, {"text"})
      \o Concat([j \in 1..Len(tree[n].children) |-> LeafTexts(tree[n].children[j])])

\* C1: extract_html never raises because of a placeholder that matches no
\* child: whatever the tree, the call of the HTML/Markdown renderer does not
\* end in an exception.
C1_NeverRaises == HtmlRun => pc # "raised"

\* C2: an unresolved placeholder of extract_html is dropped: processing it
\* adds nothing to the soup but the markup that preceded it (no content, no
\* <img>, no page wrapper) and nothing to the images.
C2_UnresolvedDropped ==
    [][ (AtMiss("extract_html") /\ pc' = "run") =>
          /\ stack'[Len(stack')].out = Top.out \o BeforeRef(Top.rest)
          /\ stack'[Len(stack')].images = Top.images ]_vars

\* C3: an unresolved placeholder of extract_block_html does not make the
\* call raise and is not replaced by the content or image of another child:
\* it is dropped or left in place, and the images stay as they were.
C3_BlockUnresolvedHarmless ==
    [][ AtMiss("extract_block_html") =>
          /\ pc' = "run"
          /\ stack'[Len(stack')].out \in
                { Top.out \o BeforeRef(Top.rest),
                  Top.out \o BeforeRef(Top.rest) \o <<Top.rest[FirstRef(Top.rest)]>> }
          /\ stack'[Len(stack')].images = Top.images ]_vars

C5_RoundTrip ==
    (HtmlReturned /\ AllResolved /\ NoImageNodes) =>
        /\ Without(result.html, {"div", "/div"}) = FinishHtml(Splice(Root))
        /\ Kinds(result.html, {"text"}) = LeafTexts(Root)
        /\ Without(result.html, {"div", "/div", "doc", "/doc", "b", "/b"})
             = Without(Splice(Root), {"b", "/b"})

\* C5's case: three levels below the document, two bold leaves side by side
\* (merged at level 0) and container markup around them.
C5_Witness ==
    /\ HtmlRun
    /\ pc = "done"
    /\ AllResolved
    /\ NoImageNodes
    /\ Len(LeafTexts(Root)) >= 2
    /\ \E j \in 1..Len(result.html) : result.html[j].k = "open"
    /\ Len(Kinds(Splice(Root), {"b"})) > Len(Kinds(result.html, {"b"}))

\* No node is on the call stack twice.
NoReentry ==
    \A a, b \in 1..Len(stack) : stack[a].node = stack[b].node => a = b

\* What is left to do: the nodes not yet called (each call spends one),
\* the placeholders and children the frames on the stack have not processed,
\* the frames that have not returned, and the steps after the resolution.
RECURSIVE Pending(_)
Pending(st) ==
    IF st = <<>> THEN 0
    ELSE 1 + Pending(Tail(st))
           + (IF Head(st).fn \in {"render", "extract_json"}
              THEN Len(tree[Head(st).node].children) - Head(st).i
              ELSE Len(Kinds(Head(st).rest, {"ref"})))
Measure ==
    (2 * Len(tree) + 2) * (Len(tree) - calls) + Pending(stack)
      + (CASE pc = "run" -> 2 [] pc = "extracted" -> 1 [] OTHER -> 0)

\* The guards of the actions of Next: some step of the run can be taken.
CanStep ==
    \/ pc = "extracted"
    \/ /\ pc = "run"
       /\ stack # <<>>
       /\ \/ \E fn \in {"extract_html", "extract_block_html"} : AtCall(fn) \/ AtMiss(fn)
          \/ AtEnd("extract_html")
          \/ AtEnd("extract_block_html")
               /\ CalledBy({"extract_block_html", "render", "extract_json"})
          \/ AtChild
          \/ AtLast("extract_json") /\ CalledBy({"render", "extract_json"})
          \/ AtLast("render")

\* C6: resolution terminates. In every run of extract_html and of
\* extract_block_html (under extract_json) no node is entered while it is
\* on the call stack, there is at most one call per node, a run that has not
\* ended by a return or an exception can take a step, and every step
\* lowers a measure that cannot go below zero.
C6_Terminates ==
    /\ [](pc # "idle" =>
            /\ NoReentry
            /\ calls <= Len(tree)
            /\ Measure >= 0
            /\ (Returned \/ CanStep))
    /\ [][Measure' < Measure]_vars

\* C6's case: recursion four frames deep.
C6_Witness == Len(stack) = 4 /\ Top.fn \in {"extract_html", "extract_block_html"}

\* The pages of the document, in order.
Pages == tree[Root].children
MarkerPos(md) == SeqOfSet({i \in 1..Len(md) : md[i].k = "marker"})
\* What follows the j-th marker up to the next marker.
AfterMarker(md, j) ==
    SubSeq(md, MarkerPos(md)[j] + 1,
           IF j < Len(MarkerPos(md)) THEN MarkerPos(md)[j + 1] - 1 ELSE Len(md))

\* C7: with pagination on and every placeholder resolved, the Markdown
\* holds one marker per Page, in page order, with that page's id, followed
\* by that page's content (empty pages too); with pagination off it holds no
\* marker and the html no page wrapper.
C7_Pagination ==
    (HtmlRun /\ pc = "done" /\ AllResolved) =>
        IF cfg.paginate_output
        THEN /\ Kinds(markdown, {"marker"})
                  = [j \in 1..Len(Pages) |-> Tok("marker", tree[Pages[j]].page_id)]
             /\ \A j \in 1..Len(Pages) :
                  /\ Len(MarkerPos(markdown)) >= j
                  /\ Kinds(AfterMarker(markdown, j), {"text"}) = LeafTexts(Pages[j])
             /\ MarkerPos(markdown) # <<>> => MarkerPos(markdown)[1] = 1
        ELSE /\ Kinds(markdown, {"marker"}) = <<>>
             /\ Kinds(result.html, {"div", "/div"}) = <<>>

\* C7's case: two pages or more, one of them empty, one with text.
C7_Witness ==
    /\ HtmlRun
    /\ pc = "done"
    /\ AllResolved
    /\ cfg.paginate_output
    /\ Len(Pages) >= 2
    /\ \E j \in 1..Len(Pages) : tree[Pages[j]].children = <<>>
    /\ \E j \in 1..Len(Pages) : LeafTexts(Pages[j]) # <<>>

(***************************************************************************)
(* Properties of convert_table                                             *)
(***************************************************************************)
RECURSIVE SumColspan(_)
SumColspan(cells) ==
    IF cells = <<>> THEN 0 ELSE Head(cells).colspan + SumColspan(Tail(cells))

\* The cells of earlier rows whose rowspan reaches down onto row i.
ReachesDown(t, i) == SelectSeq(t.cells, LAMBDA x : x.row < i /\ x.row + x.rowspan > i)

\* The width of row i: its own colspans and those pushed down onto it.
RowWidth(t, i) == SumColspan(RowCells(t, i)) + SumColspan(ReachesDown(t, i))

\* C8: the column count is the maximum over the rows of the row's own
\* colspans plus the colspans of the cells of earlier rows whose rowspan
\* reaches down onto the row.
C8_TotalCols ==
    (tpc \in {"place", "emit", "done"} /\ table.rows > 0) =>
        total_cols = Max({RowWidth(table, i) : i \in 0..(table.rows - 1)})

\* The layout of a table: each cell is anchored at the first column of its
\* row, from the end of the cell before it, that no earlier cell covers.
\* The anchors (columns) of the cells n.. given the positions occ covered by
\* the cells before n and the column prev where the cell before n ended.
FirstFree(occ, row, from) ==
    CHOOSE c \in from..(from + Cardinality(occ)) :
        /\ <<row, c>> \notin occ
        /\ \A d \in from..(c - 1) : <<row, d>> \in occ

RECURSIVE Anchors(_, _, _, _)
Anchors(t, n, occ, prev) ==
    IF n > Len(t.cells) THEN <<>>
    ELSE LET cell == t.cells[n]
             a == FirstFree(occ, cell.row, IF cell.k = 1 THEN 0 ELSE prev)
         IN  <<a>> \o Anchors(t, n + 1, occ \cup Covered(cell.row, a, cell), a + cell.colspan)

\* The layout of t: the anchor column of each cell and the positions it covers.
Layout(t) ==
    LET a == Anchors(t, 1, {}, 0)
    IN  [n \in 1..Len(t.cells) |->
            [anchor |-> <<t.cells[n].row, a[n]>>,
             rect   |-> Covered(t.cells[n].row, a[n], t.cells[n])]]

RECURSIVE Area(_)
Area(cells) ==
    IF cells = <<>> THEN 0
    ELSE Head(cells).rowspan * Head(cells).colspan + Area(Tail(cells))

\* The width of a table that tiles a rectangle: that of its first row.
Width(t) == SumColspan(RowCells(t, 0))

\* The cells of t, laid out as lay, exactly tile a rectangle of t.rows rows
\* and Width(t) columns: they cover nothing outside it, no position twice,
\* and every position of it.
Tiles(t, lay) ==
    /\ t.rows >= 1
    /\ Width(t) >= 1
    /\ Area(t.cells) = t.rows * Width(t)
    /\ \A n \in 1..Len(t.cells) : \A p \in lay[n].rect : p[1] < t.rows /\ p[2] < Width(t)
    /\ \A n, m \in 1..Len(t.cells) : n # m => lay[n].rect \cap lay[m].rect = {}
    /\ \A r \in 0..(t.rows - 1) : \A c \in 0..(Width(t) - 1) :
          \E n \in 1..Len(t.cells) : <<r, c>> \in lay[n].rect

\* What position (r, c) holds once the first n cells are placed.
Expected(t, lay, n, r, c) ==
    IF \E m \in 1..n : <<r, c>> \in lay[m].rect
    THEN LET m == CHOOSE m \in 1..n : <<r, c>> \in lay[m].rect
         IN  IF <<r, c>> = lay[m].anchor THEN t.cells[m].value ELSE EmptyStr
    ELSE NoValue

\* C9: for a table whose cells exactly tile an R x C rectangle the grid is
\* R x C and, after each cell placed, holds every placed cell's value at its
\* anchor and nowhere else, the empty string at the other positions the
\* placed cells cover, and None elsewhere; so nothing written is overwritten
\* by a later cell, no write falls outside the grid, and after the last
\* cell no position is left unset.
C9_TilingGrid ==
    LET lay == Layout(table)
    IN  (tpc \in {"place", "emit", "done"} /\ Tiles(table, lay)) =>
            /\ total_cols = Width(table)
            /\ Len(grid) = table.rows
            /\ \A r \in 1..table.rows :
                 /\ Len(grid[r]) = Width(table)
                 /\ \A c \in 1..Width(table) :
                       grid[r][c] = Expected(table, lay, cur - 1, r - 1, c - 1)
            /\ overflows = 0
            /\ tpc \in {"emit", "done"} =>
                 \A r \in 1..table.rows : \A c \in 1..Width(table) : grid[r][c] # NoValue

\* C9's case: the 2 x 2 table with a cell of rowspan 2, converted.
C9_Witness ==
    /\ tpc = "done"
    /\ Tiles(table, Layout(table))
    /\ table.rows = 2
    /\ Width(table) = 2
    /\ \E n \in 1..NumCells : table.cells[n].rowspan = 2 /\ table.cells[n].colspan = 1
    /\ \E n \in 1..NumCells : table.cells[n].row = 1

\* The rows of the grid that are not blank.
NonBlank == {i \in 1..Len(grid) : ~is_empty_line(grid[i])}
Separators == {j \in 1..Len(markdown_lines) : markdown_lines[j].sep}

\* C10: the text table of a table with a non-blank row holds exactly one
\* header separator, right after the first non-blank row, which is the
\* first line: no blank row goes before it. A single-row table too.
C10_OneSeparator ==
    (tpc = "done" /\ NonBlank # {}) =>
        /\ Separators = {2}
        /\ markdown_lines[1] = RowLine(Min(NonBlank), grid[Min(NonBlank)])

\* What is left of convert_table: the cells to place and the emission.
TMeasure ==
    CASE tpc = "count" -> NumCells + 2
      [] tpc = "place" -> NumCells - cur + 2
      [] tpc = "emit" -> 1
      [] OTHER -> 0

\* C11: convert_table is total. Whatever the rows and spans of the table,
\* no exception leaves it, every step short of the return can be followed
\* by another, every step lowers a measure that is never negative, and what
\* is returned is a text table: rows as wide as the column count.
C11_TableTotal ==
    /\ [](tpc # "idle" =>
            /\ tpc \in {"count", "place", "emit", "done"}
            /\ tpc = "place" => cur \in 1..NumCells
            /\ TMeasure >= 0
            /\ tpc = "done" =>
                 \A j \in 1..Len(markdown_lines) :
                    markdown_lines[j].sep \/ Len(markdown_lines[j].cells) = total_cols)
    /\ [][TMeasure' < TMeasure]_vars

\* C11's case: a table with no row, or one whose spans overflowed the
\* grid or pushed a cell out of it, has been converted.
C11_Witness ==
    /\ tpc = "done"
    /\ overflows > 0
    /\ \E n \in 1..NumCells : \A r \in 1..Len(grid) : \A c \in 1..total_cols :
          grid[r][c] # table.cells[n].value

\* The cell the step places, its anchor, and whether its spans leave the grid.
Placing == tpc = "place"
CurCell == table.cells[cur]
Overflowing ==
    /\ Placing
    /\ AnchorCol(CurCell) < total_cols
    /\ \E p \in Covered(CurCell.row, AnchorCol(CurCell), CurCell) : ~InGrid(p)

C13_AnchorOutSkipped ==
    [][ Placing =>
          IF AnchorCol(CurCell) >= total_cols
          THEN grid' = grid /\ overflows' > overflows
          ELSE grid'[CurCell.row + 1][AnchorCol(CurCell) + 1] = CurCell.value ]_vars

(***************************************************************************)
(* Properties of sort_text_lines                                           *)
(***************************************************************************)
SortReturned == spc \in {"sorted", "resorted"}
Elems(s) == {s[j] : j \in 1..Len(s)}

\* C14: the list returned is a permutation of the list given: as long, and
\* holding the same lines (the lines are distinct objects); the empty list
\* gives the empty list.
C14_Permutation ==
    SortReturned =>
        /\ Len(sorted_lines) = Len(lines)
        /\ Elems(sorted_lines) = Elems(lines)
        /\ \A l \in Elems(lines) :
              Cardinality({j \in 1..Len(sorted_lines) : sorted_lines[j] = l}) = 1
        /\ lines = <<>> => sorted_lines = <<>>

\* C14's case: four lines, two of them in one bucket, returned in another order.
C14_Witness ==
    /\ spc = "sorted"
    /\ Len(lines) = MaxLines
    /\ sorted_lines # lines
    /\ \E a, b \in 1..Len(lines) :
          a # b /\ group_key(lines[a], tolerance) = group_key(lines[b], tolerance)

\* C15: sorting the list returned gives the same list again.
C15_Idempotent == spc = "resorted" => resorted = sorted_lines

\* C15's case: two lines with the same bucket and the same left-x, in a
\* list that was not in order.
C15_Witness ==
    /\ spc = "resorted"
    /\ sorted_lines # lines
    /\ \E a, b \in 1..Len(lines) :
          /\ a # b
          /\ group_key(lines[a], tolerance) = group_key(lines[b], tolerance)
          /\ lines[a].x = lines[b].x

\* C16: the list returned is ordered by (bucket key, left-x), and lines
\* equal on both are in the order of the list given.
C16_Ordered ==
    SortReturned =>
        \A a, b \in 1..Len(sorted_lines) : a < b =>
            LET ka == Round(sorted_lines[a].y, tolerance) * tolerance
                kb == Round(sorted_lines[b].y, tolerance) * tolerance
            IN  \/ ka < kb
                \/ /\ ka = kb
                   /\ sorted_lines[a].x <= sorted_lines[b].x
                   /\ sorted_lines[a].x = sorted_lines[b].x
                        => sorted_lines[a].id < sorted_lines[b].id

\* C16's case: a list given with a later bucket first, a larger left-x
\* first within a bucket, and two lines equal on both.
C16_Witness ==
    /\ spc = "sorted"
    /\ \E a, b \in 1..Len(lines) :
          a < b /\ group_key(lines[a], tolerance) > group_key(lines[b], tolerance)
    /\ \E a, b \in 1..Len(lines) :
          /\ a < b
          /\ group_key(lines[a], tolerance) = group_key(lines[b], tolerance)
          /\ lines[a].x > lines[b].x
    /\ \E a, b \in 1..Len(lines) :
          /\ a < b
          /\ lines[a].y = lines[b].y
          /\ lines[a].x = lines[b].x

\* y is approximately c: within half the tolerance of c.
Near(y, c) == 2 * (IF y >= c THEN y - c ELSE c - y) <= tolerance

\* The four boxes of the example: two with top-y near 0, two near 100, and
\* the tolerance 1.25.
FourBoxes ==
    /\ tolerance = 10
    /\ Len(lines) = 4
    /\ Cardinality({j \in 1..4 : Near(lines[j].y, 0)}) = 2
    /\ Cardinality({j \in 1..4 : Near(lines[j].y, 800)}) = 2

\* C17: of the four boxes the two near y = 0 come first, ordered by left-x,
\* then the two near y = 100, ordered by left-x, whatever the order given.
C17_RowGrouping ==
    (SortReturned /\ FourBoxes) =>
        /\ Near(sorted_lines[1].y, 0) /\ Near(sorted_lines[2].y, 0)
        /\ sorted_lines[1].x <= sorted_lines[2].x
        /\ Near(sorted_lines[3].y, 800) /\ Near(sorted_lines[4].y, 800)
        /\ sorted_lines[3].x <= sorted_lines[4].x

\* C17's case: the four boxes given with a box near 100 first and the
\* boxes near 0 (one above 0, one below) with the larger left-x first.
C17_Witness ==
    /\ spc = "sorted"
    /\ FourBoxes
    /\ Near(lines[1].y, 800)
    /\ \E a, b \in 1..4 :
          /\ a < b
          /\ lines[a].y = 0 /\ lines[b].y = -5
          /\ lines[a].x > lines[b].x

(***************************************************************************)
(* Properties of matrix_intersection_area                                  *)
(***************************************************************************)
BoxArea(b) == (b[3] - b[1]) * (b[4] - b[2])
WellFormed(b) == b[3] >= b[1] /\ b[4] >= b[2]

\* C18: for well-formed boxes the matrix returned is N x M, its entry
\* (i, j) is the area of the intersection of boxes1[i] and boxes2[j], at
\* least 0 and at most the area of either box; the lists swapped give the
\* transposed matrix; an empty list gives a dimension of zero.
C18_IntersectionMatrix ==
    LET N == Len(boxes1)
        M == Len(boxes2)
        wf == \A i \in 1..N : \A j \in 1..M : WellFormed(boxes1[i]) /\ WellFormed(boxes2[j])
    IN  /\ (mpc \in {"computed", "swapped"} /\ wf) =>
              /\ areas.shape = <<N, M>>
              /\ Len(areas.at) = N
              /\ \A i \in 1..N :
                   /\ Len(areas.at[i]) = M
                   /\ \A j \in 1..M :
                        LET a == boxes1[i]
                            b == boxes2[j]
                            w == Minimum(a[3], b[3]) - Maximum(a[1], b[1])
                            h == Minimum(a[4], b[4]) - Maximum(a[2], b[2])
                        IN  /\ areas.at[i][j] = Maximum(0, w) * Maximum(0, h)
                            /\ areas.at[i][j] >= 0
                            /\ areas.at[i][j] <= BoxArea(a)
                            /\ areas.at[i][j] <= BoxArea(b)
        /\ (mpc = "swapped" /\ wf) =>
              /\ swapped.shape = <<M, N>>
              /\ \A i \in 1..N : \A j \in 1..M : swapped.at[j][i] = areas.at[i][j]

\* C18's case: a 2 x 1 matrix with an entry that is positive and one of a
\* pair of boxes that lie apart, and its counterpart with the lists swapped.
C18_Witness ==
    /\ mpc = "swapped"
    /\ Len(boxes1) = 2
    /\ Len(boxes2) = 1
    /\ areas.at[1][1] > 0
    /\ boxes1[2][1] > boxes2[1][3]
    /\ boxes1[2][2] > boxes2[1][4]

\* The texts of the spans of ProviderOutput o in memory h, in order.
SpanTexts(h, o) ==
    LET spans == h[SpansOf(h, o)].refs
    IN  [i \in 1..Len(spans) |-> h[spans[i]].val]

BboxOf(h, o) == h[PolygonOf(h, o)].val

\* C19: the output merge returns has the spans of self followed by the
\* spans of other, in order, and its line polygon is the bounding-box union
\* of the line polygons of self and other.
C19_MergeConcatenates ==
    (ppc = "returned" /\ edits = 0) =>
        /\ heap[new_output].kind = "output"
        /\ SpanTexts(heap, new_output)
              = SpanTexts(before, self) \o SpanTexts(before, other)
        /\ BboxOf(heap, new_output)
              = BboxUnion(BboxOf(before, self), BboxOf(before, other))

\* Two outputs of two spans each, with different bboxes, were merged.
C19_Witness ==
    /\ ppc = "returned"
    /\ edits = 0
    /\ self # other
    /\ Len(SpanTexts(before, self)) = 2
    /\ Len(SpanTexts(before, other)) = 2
    /\ BboxOf(before, self) # BboxOf(before, other)
    /\ Len(SpanTexts(heap, new_output)) = 4

\* The objects self and other are made of.
Inputs == Reachable(before, {self, other})

\* C20: merge produces a copy: once it has returned, and whatever the
\* caller then does to the object returned, every object that self and
\* other are made of (their spans, chars, line and polygon) is as it was
\* before the call.
C20_InputsUnaffected ==
    (ppc = "returned") =>
        /\ \A x \in Inputs : heap[x] = before[x]
        /\ ReturnedObjects \cap Inputs = {}

\* The caller has changed the object returned, whose chars came from
\* other alone.
C20_Witness ==
    /\ ppc = "returned"
    /\ edits > 0
    /\ self # other
    /\ CharsOf(before, self) = None
    /\ CharsOf(before, other) # None
    /\ SpanTexts(before, self) # <<>>
    /\ heap # merge(before, self, other).heap

\* len(spans) == len(chars) whenever chars is tracked.
LengthsAgree(h, o) ==
    CharsOf(h, o) # None => Len(h[SpansOf(h, o)].refs) = Len(h[CharsOf(h, o)].refs)

\* C21: merge preserves len(spans) == len(chars) whenever chars is tracked:
\* if self and other each satisfy it, chars of one of them being None
\* included, the output merge returns satisfies it.
C21_MergeKeepsLengths ==
    (ppc = "returned" /\ edits = 0
        /\ LengthsAgree(before, self) /\ LengthsAgree(before, other))
    => LengthsAgree(heap, new_output)

\* C22: the registry is read-only once tree construction has begun: no
\* register_block_class call happens after the first document has started
\* being built.
C22_RegistryReadOnly ==
    [][documents # <<>> => registered' = registered]_vars

\* The chunk renderer has returned.
ChunksReturned == cfg.renderer = "chunk" /\ pc = "done"

\* The direct children of the Page nodes, in page order then structure
\* order, each with its Page.
RECURSIVE PageChildren(_)
PageChildren(pages) ==
    IF pages = <<>> THEN <<>>
    ELSE [j \in 1..Len(tree[Head(pages)].children) |->
             [id |-> tree[Head(pages)].children[j], page |-> Head(pages)]]
         \o PageChildren(Tail(pages))

TagPairs(s, tag) ==
    { j \in 1..Len(s) :
        /\ s[j] = CloseTag(tag)
        /\ LET w == WsRun(SubSeq(s, j + 1, Len(s)))
           IN  j + w + 1 <= Len(s) /\ s[j + w + 1] = OpenTag(tag) }

\* s with the pair at j taken out: nothing is left of a pair with no
\* whitespace in it, one space of a pair with whitespace.
WithoutPair(s, j) ==
    LET w == WsRun(SubSeq(s, j + 1, Len(s)))
    IN  SubSeq(s, 1, j - 1) \o (IF w = 0 THEN <<>> ELSE <<Space>>)
            \o SubSeq(s, j + w + 2, Len(s))

\* C24: merge_consecutive_tags returns a fixpoint: every pass of the loop
\* that changes the html shortens it (so the loop ends), the result holds
\* no closing tag followed by whitespace only and an opening tag, a pair
\* without whitespace is removed and a pair with whitespace becomes one
\* space, and the function leaves its own result unchanged.
C24_TagsFixpoint ==
    /\ (gpc # "idle") =>
          \/ SubTags(markup, tagname) = markup
          \/ Len(SubTags(markup, tagname)) < Len(markup)
    /\ (gpc \in {"merged", "remerged"}) =>
          /\ TagPairs(merged, tagname) = {}
          /\ TagPairs(markup, tagname) = {} => merged = markup
          /\ \A j \in TagPairs(markup, tagname) :
                merged = merge_consecutive_tags(WithoutPair(markup, j), tagname)
          /\ \A j \in TagPairs(markup, tagname) :
                TagPairs(WithoutPair(markup, j), tagname) = {}
                    => merged = WithoutPair(markup, j)
    /\ (gpc = "remerged") => remerged = merged

\* The html held a pair inside a pair, the inner one without whitespace
\* and the outer one with a newline: two passes were needed.
C24_Witness ==
    /\ gpc = "remerged"
    /\ markup = <<CloseTag("b"), CloseTag("b"), OpenTag("b"), Newline, OpenTag("b")>>
    /\ merged = <<Space>>

\* The names the <img> elements of s refer to.
ImgNames(s) == {s[j].id : j \in {i \in 1..Len(s) : s[i].k = "img"}}

\* C25: with image extraction enabled, the html resolver returns html and
\* an images map that agree: every <img src=name> names a key of the map
\* and every key of the map is the src of an <img>.
C25_ImagesConsistent ==
    (HtmlReturned /\ cfg.extract_images) => ImgNames(result.html) = result.images

\* The errors after which a service may make a further request: rate
\* limit or timeout, and for Gemini the API codes 429, 443, 503 or a
\* response that is no JSON.
RetryableError(s, o) ==
    \/ s \in {"openai", "claude"} /\ o \in {"rate_limit", "timeout"}
    \/ s = "gemini" /\ o \in {"api_429", "api_443", "api_503", "invalid"}

\* The parts of C26 on the number and the order of the requests: at most
\* max_retries + 1 requests, each but the last one failed with a
\* retryable error, and the call returns when no request is left.
BoundedRetries ==
    /\ Len(outcomes) <= max_retries + 1
    /\ \A k \in 1..(Len(outcomes) - 1) : RetryableError(service, outcomes[k])
    /\ Len(waits) = (IF lpc = "calling" THEN Len(outcomes) ELSE Len(outcomes) - 1)
    /\ (lpc = "calling") => Len(outcomes) <= max_retries
    /\ (lpc = "returned") =>
          \/ TryReturns(service, outcomes[Len(outcomes)])
          \/ ~RetryableError(service, outcomes[Len(outcomes)])
          \/ Len(outcomes) = max_retries + 1

C27_ReturnsDict ==
    (lpc = "returned") =>
        returned = (IF outcomes[Len(outcomes)] = "valid" THEN "response" ELSE "empty")

\* The place in the returned pipeline at which the processor instantiated
\* from the i-th class runs: the place of the entry that is it or holds it,
\* and its place among the processors that entry runs.
RunsAt(i) ==
    LET k == CHOOSE k \in 1..Len(pipeline) :
                 \/ pipeline[k].id = i
                 \/ \E j \in 1..Len(pipeline[k].processor_lst) : pipeline[k].processor_lst[j].id = i
        e == pipeline[k]
    IN  <<k, IF e.id = i THEN 0
             ELSE CHOOSE j \in 1..Len(e.processor_lst) : e.processor_lst[j].id = i>>

RunsBefore(i, j) ==
    \/ RunsAt(i)[1] < RunsAt(j)[1]
    \/ RunsAt(i)[1] = RunsAt(j)[1] /\ RunsAt(i)[2] < RunsAt(j)[2]

OthersIn(lst) == SelectSeq(lst, LAMBDA p : p.cls = "other")

MetaAt == CHOOSE k \in 1..Len(pipeline) : pipeline[k].cls = "meta"

LastLLM == CHOOSE i \in 1..Len(processor_cls_lst) :
               /\ processor_cls_lst[i] = "simple_llm"
               /\ \A j \in (i + 1)..Len(processor_cls_lst) : processor_cls_lst[j] = "other"

HasLLM == \E i \in 1..Len(processor_cls_lst) : processor_cls_lst[i] = "simple_llm"

OthersKeepOrder == OthersIn(pipeline) = OthersIn(Instances(processor_cls_lst))

\* The other processors ahead of the meta-processor are those ahead of the
\* last simple LLM processor in the list given.
MetaAtLastLLM ==
    HasLLM => \A i \in 1..Len(processor_cls_lst) :
                  processor_cls_lst[i] = "other" => (RunsAt(i)[1] < MetaAt <=> i < LastLLM)

NoneOvertaken ==
    \A i, j \in 1..Len(processor_cls_lst) : i < j => RunsBefore(i, j)

\* C28: the pipeline initialize_processors returns keeps the processing
\* order: the non-LLM processors keep their relative order, the
\* meta-processor stands where the last simple LLM processor stood, and no
\* processor that preceded another in the list given runs after it.
C28_OrderPreserved ==
    ipc = "done" => OthersKeepOrder /\ MetaAtLastLLM /\ NoneOvertaken

C28_Grouped == ipc = "done" => OthersKeepOrder /\ MetaAtLastLLM

InBody == fpc \in {"body", "render"}

OthersUntouched == \A n \in DOMAIN files_before : exists(files, n) /\ files[n] = files_before[n]

TempHoldsStream ==
    /\ temp_path = TempName
    /\ exists(files, temp_path)
    /\ files[temp_path] = file_input.bytes
    /\ OthersUntouched

\* C29: filepath_to_str neither leaks nor destroys files: for a BytesIO the
\* temporary file holds the bytes of the stream through the whole body of
\* the with block, once the block is left, by its end or by an exception
\* (the TypeError for an unsupported input among them), the files are those
\* of before the call, and for a str no file is created or deleted at all.
C29_NoLeakNoLoss ==
    /\ file_input.type = "str" => files = files_before /\ temp_file = "None"
    /\ file_input.type = "BytesIO" /\ InBody => TempHoldsStream
    /\ file_input.type = "int" => ~InBody /\ (fpc = "exited" => pending = "TypeError")
    /\ fpc = "exited" => files = files_before

C29_Witness ==
    /\ fpc = "exited"
    /\ file_input.type = "BytesIO"
    /\ Len(file_input.bytes) = MaxBytes
    /\ built = file_input.bytes
    /\ pending = "Exception"
    /\ files_before # <<>>

PagesOf(chunk) == SelectSeq(chunk, LAMBDA x : x # Separator)

\* The chunks are consecutive groups of extraction_page_chunk_size pages, the
\* last one alone may be smaller, and together they are the page list.
ChunksPartition ==
    /\ Concat([k \in 1..Len(md_chunks) |-> PagesOf(md_chunks[k])]) = page_markdown
    /\ \A k \in 1..Len(md_chunks) :
          /\ Len(PagesOf(md_chunks[k])) \in 1..extraction_page_chunk_size
          /\ k < Len(md_chunks) => Len(PagesOf(md_chunks[k])) = extraction_page_chunk_size

\* C30: whatever the order in which the workers finish, PageExtractor
\* returns one result per chunk in the order of the chunks, results[i]
\* being the outcome of chunk i, and the chunks partition the page list
\* into consecutive groups of extraction_page_chunk_size pages.
C30_ResultsInChunkOrder ==
    epc = "returned" =>
        /\ ChunksPartition
        /\ Len(results) = Len(md_chunks)
        /\ \A i \in 1..Len(results) :
              /\ results[i].of = md_chunks[i]
              /\ results[i] = futures[i].result

\* Returned with the last chunk finished before the first.
C30_Witness ==
    /\ epc = "returned"
    /\ Len(results) >= 2
    /\ Len(page_markdown) % extraction_page_chunk_size # 0
    /\ finished[1] = Len(futures)
    /\ finished[Len(finished)] = 1

====
